---------------------------- MODULE Spec2Model ----------------------------
(***************************************************************************)
(* Model of the user-profile codec of number10.py: UserProfile, its        *)
(* validators, update_preferences, serialize_user_profile,                 *)
(* deserialize_user_profile and backup_deserialization_attempt.            *)
(*                                                                         *)
(* Python values are tagged records [t, s, n, items]:                      *)
(*   t = "null" | "bool" | "int" | "float" | "str" | "list" | "dict" |     *)
(*       "ref" | "obj" | "inst" | "datetime"                               *)
(*   s     the characters of a str (a sequence of one-character strings)   *)
(*   n     the number of an int, 0/1 of a bool, tenths of a float, the     *)
(*         clock reading of a datetime, the heap address of a "ref"        *)
(*   items the elements of a list, the [k, v] entries of a dict, the       *)
(*         entries of the __dict__ of an "inst"                            *)
(* "ref" is a reference to a dict object on the heap (dicts are mutable    *)
(* and can be shared); a "dict" value is a dict nobody else holds; "obj"   *)
(* is object(); "inst" is an instance of a class with attributes.          *)
(* A text is a sequence of JSON tokens [k, s, n]; white space is a token.  *)
(***************************************************************************)
EXTENDS Integers, Sequences, FiniteSets, TLC

VARIABLES heap, profiles, now, last, item, books, staff, timer

(* the state of the other programs of the repository: the inventory item *)
(* (number9.py), the bookstore (number3.py), the employees (number8.py)   *)
(* and the timer decorator (number7.py)                                   *)
others == <<item, books, staff, timer>>

vars == <<heap, profiles, now, last, others>>

----------------------------------------------------------------------------
(* Bounds of the model *)

MaxProfiles == 2

MaxClock == 1

(* Program constants *)

MaxNameLen == 100

MaxAge == 150

----------------------------------------------------------------------------
(* Python values *)

V(t, s, n, items) == [t |-> t, s |-> s, n |-> n, items |-> items]

VNone == V("null", <<>>, 0, <<>>)

VBool(b) == V("bool", <<>>, IF b THEN 1 ELSE 0, <<>>)

VInt(n) == V("int", <<>>, n, <<>>)

VFloat(tenths) == V("float", <<>>, tenths, <<>>)

VStr(s) == V("str", s, 0, <<>>)

VList(items) == V("list", <<>>, 0, items)

VDict(entries) == V("dict", <<>>, 0, entries)

VRef(a) == V("ref", <<>>, a, <<>>)

VObj == V("obj", <<>>, 0, <<>>)

VInst(attrs) == V("inst", <<>>, 0, attrs)

VDatetime(n) == V("datetime", <<>>, n, <<>>)

E(k, v) == [k |-> k, v |-> v]

IsStr(v) == v.t = "str"

(* isinstance(v, int): bool is a subclass of int *)
IsInstanceInt(v) == v.t \in {"int", "bool"}

IsDictObj(v) == v.t \in {"dict", "ref"}

(* the entries of a dict, through the heap when it is a shared object *)
Entries(v, h) == IF v.t = "ref" THEN h[v.n] ELSE v.items

(* bool(v) *)
Truthy(v, h) ==
    CASE v.t = "null" -> FALSE
      [] v.t \in {"bool", "int", "float"} -> v.n # 0
      [] v.t = "str" -> Len(v.s) > 0
      [] v.t = "list" -> Len(v.items) > 0
      [] v.t \in {"dict", "ref"} -> Len(Entries(v, h)) > 0
      [] OTHER -> TRUE

(* a value with every reference replaced by the dict it refers to *)
Snapshot(v, h) == IF v.t = "ref" THEN VDict(h[v.n]) ELSE v

----------------------------------------------------------------------------
(* dict operations *)

HasKey(entries, k) == \E i \in 1..Len(entries) : entries[i].k = k

KeyIndex(entries, k) == CHOOSE i \in 1..Len(entries) : entries[i].k = k

DictGet(entries, k, default) ==
    IF HasKey(entries, k) THEN entries[KeyIndex(entries, k)].v ELSE default

(* d[k] = v: an existing key keeps its position, a new key goes last *)
DictSet(entries, k, v) ==
    IF HasKey(entries, k)
    THEN [entries EXCEPT ![KeyIndex(entries, k)] = E(k, v)]
    ELSE Append(entries, E(k, v))

RECURSIVE DictUpdate(_, _)
(* d.update(other) *)
DictUpdate(entries, other) ==
    IF other = <<>> THEN entries
    ELSE DictUpdate(DictSet(entries, Head(other).k, Head(other).v), Tail(other))

(* d1 == d2 for dicts: the same keys with the same values, in any order *)
DictEq(e1, e2) ==
    /\ Len(e1) = Len(e2)
    /\ \A i \in 1..Len(e1) :
          /\ HasKey(e2, e1[i].k)
          /\ DictGet(e2, e1[i].k, VNone) = e1[i].v

----------------------------------------------------------------------------
(* str operations; a str is a sequence of one-character strings *)

WhiteSpace == {" ", "\t", "\n"}

DigitChars == <<"0", "1", "2", "3", "4", "5", "6", "7", "8", "9">>

DigitSet == {DigitChars[i] : i \in 1..10}

DigitValue(c) == (CHOOSE i \in 1..10 : DigitChars[i] = c) - 1

RECURSIVE LStrip(_)
LStrip(s) ==
    IF s # <<>> /\ Head(s) \in WhiteSpace THEN LStrip(Tail(s)) ELSE s

RECURSIVE RStrip(_)
RStrip(s) ==
    IF s # <<>> /\ s[Len(s)] \in WhiteSpace
    THEN RStrip(SubSeq(s, 1, Len(s) - 1)) ELSE s

(* s.strip() *)
Strip(s) == RStrip(LStrip(s))

(* c in s, for a single character c *)
Contains(s, c) == \E i \in 1..Len(s) : s[i] = c

(* s.isdigit() *)
IsDigit(s) == s # <<>> /\ \A i \in 1..Len(s) : s[i] \in DigitSet

(* the character SUPERSCRIPT TWO: a digit to str.isdigit(), which int()  *)
(* does not accept                                                       *)
SuperscriptTwo == "^2"

(* s.isdigit(): every character is a digit, decimal or not *)
str_isdigit(s) == s # <<>> /\ \A i \in 1..Len(s) : s[i] \in DigitSet \cup {SuperscriptTwo}

RECURSIVE NatChars(_)
NatChars(n) ==
    IF n < 10 THEN <<DigitChars[n + 1]>>
    ELSE NatChars(n \div 10) \o <<DigitChars[(n % 10) + 1]>>

(* str(n) of an int *)
IntChars(n) == IF n < 0 THEN <<"-">> \o NatChars(0 - n) ELSE NatChars(n)

(* str(x) of a float kept in tenths *)
FloatChars(n) ==
    IF n < 0 THEN <<"-">> \o NatChars((0 - n) \div 10) \o <<".">> \o NatChars((0 - n) % 10)
    ELSE NatChars(n \div 10) \o <<".">> \o NatChars(n % 10)

RECURSIVE DigitsToNat(_)
(* int(s) of a str of decimal digits *)
DigitsToNat(s) ==
    IF s = <<>> THEN 0
    ELSE 10 * DigitsToNat(SubSeq(s, 1, Len(s) - 1)) + DigitValue(s[Len(s)])

(* datetime.isoformat() of clock reading n: fixed width, so text order is *)
(* time order                                                             *)
IsoFormat(n) == <<"T">> \o (IF n < 10 THEN <<"0">> ELSE <<>>) \o NatChars(n)

IsIso(s) == Len(s) = 3 /\ s[1] = "T" /\ IsDigit(Tail(s))

IsoTime(s) == DigitsToNat(Tail(s))

RECURSIVE Repr(_)
RECURSIVE ReprItems(_)
RECURSIVE ReprEntries(_)
(* repr(v) *)
Repr(v) ==
    CASE v.t = "null" -> <<"N", "o", "n", "e">>
      [] v.t = "bool" -> IF v.n = 1 THEN <<"T", "r", "u", "e">>
                         ELSE <<"F", "a", "l", "s", "e">>
      [] v.t = "int" -> IntChars(v.n)
      [] v.t = "float" -> FloatChars(v.n)
      [] v.t = "str" -> <<"'">> \o v.s \o <<"'">>
      [] v.t = "list" -> <<"[">> \o ReprItems(v.items) \o <<"]">>
      [] v.t = "dict" -> <<"{">> \o ReprEntries(v.items) \o <<"}">>
      [] OTHER -> <<"<", v.t, ">">>

ReprItems(items) ==
    IF items = <<>> THEN <<>>
    ELSE Repr(Head(items))
         \o (IF Len(items) > 1 THEN <<",", " ">> ELSE <<>>)
         \o ReprItems(Tail(items))

ReprEntries(entries) ==
    IF entries = <<>> THEN <<>>
    ELSE Repr(Head(entries).k) \o <<":", " ">> \o Repr(Head(entries).v)
         \o (IF Len(entries) > 1 THEN <<",", " ">> ELSE <<>>)
         \o ReprEntries(Tail(entries))

(* str(v): a str is itself, anything else is its repr *)
StrOf(v, h) == IF v.t = "str" THEN v ELSE VStr(Repr(Snapshot(v, h)))

----------------------------------------------------------------------------
(* JSON texts: sequences of tokens *)

Tok(k) == [k |-> k, s |-> <<>>, n |-> 0]

TokStr(s) == [k |-> "str", s |-> s, n |-> 0]

TokInt(n) == [k |-> "int", s |-> <<>>, n |-> n]

TokFloat(n) == [k |-> "float", s |-> <<>>, n |-> n]

Ws == Tok("ws")

DumpFail == [ok |-> FALSE, text |-> <<>>]

DumpOk(text) == [ok |-> TRUE, text |-> text]

(* _json_serializer: the default= hook of json.dumps; ok = FALSE is its *)
(* TypeError                                                             *)
json_serializer(obj) ==
    IF obj.t = "datetime" THEN [ok |-> TRUE, val |-> VStr(IsoFormat(obj.n))]
    ELSE IF obj.t = "inst" THEN [ok |-> TRUE, val |-> VDict(obj.items)]
    ELSE [ok |-> FALSE, val |-> VNone]

(* the text json.dumps writes for a dict key; ok = FALSE is its TypeError *)
DumpKey(k) ==
    CASE k.t = "str" -> DumpOk(<<TokStr(k.s)>>)
      [] k.t = "int" -> DumpOk(<<TokStr(IntChars(k.n))>>)
      [] k.t = "float" -> DumpOk(<<TokStr(FloatChars(k.n))>>)
      [] k.t = "bool" -> DumpOk(<<TokStr(IF k.n = 1 THEN <<"t", "r", "u", "e">>
                                         ELSE <<"f", "a", "l", "s", "e">>)>>)
      [] k.t = "null" -> DumpOk(<<TokStr(<<"n", "u", "l", "l">>)>>)
      [] OTHER -> DumpFail

RECURSIVE json_dumps(_, _, _)
RECURSIVE DumpItems(_, _, _)
RECURSIVE DumpEntries(_, _, _)
(* json.dumps(v, indent=2 when indent, default=_json_serializer when     *)
(* useDefault); ok = FALSE is its TypeError                               *)
json_dumps(v, indent, useDefault) ==
    LET sp == IF indent THEN <<Ws>> ELSE <<>> IN
    CASE v.t = "null" -> DumpOk(<<Tok("null")>>)
      [] v.t = "bool" -> DumpOk(<<Tok(IF v.n = 1 THEN "true" ELSE "false")>>)
      [] v.t = "int" -> DumpOk(<<TokInt(v.n)>>)
      [] v.t = "float" -> DumpOk(<<TokFloat(v.n)>>)
      [] v.t = "str" -> DumpOk(<<TokStr(v.s)>>)
      [] v.t = "list" ->
           IF v.items = <<>> THEN DumpOk(<<Tok("["), Tok("]")>>)
           ELSE LET r == DumpItems(v.items, indent, useDefault) IN
                IF r.ok THEN DumpOk(<<Tok("[")>> \o sp \o r.text \o sp \o <<Tok("]")>>)
                ELSE DumpFail
      [] v.t = "dict" ->
           IF v.items = <<>> THEN DumpOk(<<Tok("{"), Tok("}")>>)
           ELSE LET r == DumpEntries(v.items, indent, useDefault) IN
                IF r.ok THEN DumpOk(<<Tok("{")>> \o sp \o r.text \o sp \o <<Tok("}")>>)
                ELSE DumpFail
      [] OTHER ->
           IF useDefault /\ json_serializer(v).ok
           THEN json_dumps(json_serializer(v).val, indent, useDefault)
           ELSE DumpFail

DumpItems(items, indent, useDefault) ==
    LET r == json_dumps(Head(items), indent, useDefault)
        sep == <<Tok(",")>> \o (IF indent THEN <<Ws>> ELSE <<>>)
    IN  IF ~r.ok THEN DumpFail
        ELSE IF Len(items) = 1 THEN r
        ELSE LET rest == DumpItems(Tail(items), indent, useDefault) IN
             IF rest.ok THEN DumpOk(r.text \o sep \o rest.text) ELSE DumpFail

DumpEntries(entries, indent, useDefault) ==
    LET k == DumpKey(Head(entries).k)
        r == json_dumps(Head(entries).v, indent, useDefault)
        sep == <<Tok(",")>> \o (IF indent THEN <<Ws>> ELSE <<>>)
    IN  IF ~k.ok \/ ~r.ok THEN DumpFail
        ELSE IF Len(entries) = 1 THEN DumpOk(k.text \o <<Tok(":")>> \o r.text)
        ELSE LET rest == DumpEntries(Tail(entries), indent, useDefault) IN
             IF rest.ok
             THEN DumpOk(k.text \o <<Tok(":")>> \o r.text \o sep \o rest.text)
             ELSE DumpFail

ParseFail == [ok |-> FALSE, val |-> VNone, next |-> 0]

ParseOk(v, next) == [ok |-> TRUE, val |-> v, next |-> next]

KindAt(toks, i) == IF i <= Len(toks) THEN toks[i].k ELSE "eof"

RECURSIVE ParseValue(_, _)
RECURSIVE ParseElements(_, _, _)
RECURSIVE ParseMembers(_, _, _)
(* the JSON value that starts at token i *)
ParseValue(toks, i) ==
    LET k == KindAt(toks, i) IN
    CASE k = "null" -> ParseOk(VNone, i + 1)
      [] k = "true" -> ParseOk(VBool(TRUE), i + 1)
      [] k = "false" -> ParseOk(VBool(FALSE), i + 1)
      [] k = "int" -> ParseOk(VInt(toks[i].n), i + 1)
      [] k = "float" -> ParseOk(VFloat(toks[i].n), i + 1)
      [] k = "str" -> ParseOk(VStr(toks[i].s), i + 1)
      [] k = "[" -> IF KindAt(toks, i + 1) = "]" THEN ParseOk(VList(<<>>), i + 2)
                    ELSE ParseElements(toks, i + 1, <<>>)
      [] k = "{" -> IF KindAt(toks, i + 1) = "}" THEN ParseOk(VDict(<<>>), i + 2)
                    ELSE ParseMembers(toks, i + 1, <<>>)
      [] OTHER -> ParseFail

ParseElements(toks, i, acc) ==
    LET r == ParseValue(toks, i) IN
    IF ~r.ok THEN ParseFail
    ELSE IF KindAt(toks, r.next) = ","
         THEN ParseElements(toks, r.next + 1, Append(acc, r.val))
    ELSE IF KindAt(toks, r.next) = "]"
         THEN ParseOk(VList(Append(acc, r.val)), r.next + 1)
    ELSE ParseFail

(* a repeated key keeps its last value *)
ParseMembers(toks, i, acc) ==
    IF KindAt(toks, i) # "str" \/ KindAt(toks, i + 1) # ":" THEN ParseFail
    ELSE LET r == ParseValue(toks, i + 2) IN
         IF ~r.ok THEN ParseFail
         ELSE IF KindAt(toks, r.next) = ","
              THEN ParseMembers(toks, r.next + 1, DictSet(acc, VStr(toks[i].s), r.val))
         ELSE IF KindAt(toks, r.next) = "}"
              THEN ParseOk(VDict(DictSet(acc, VStr(toks[i].s), r.val)), r.next + 1)
         ELSE ParseFail

SkipWs(text) == SelectSeq(text, LAMBDA t : t.k # "ws")

(* json.loads(text): ok = FALSE is its JSONDecodeError (no value, a bad *)
(* token, or extra data after the value)                                 *)
json_loads(text) ==
    LET toks == SkipWs(text)
        r == ParseValue(toks, 1)
    IN  IF r.ok /\ r.next = Len(toks) + 1 THEN [ok |-> TRUE, val |-> r.val]
        ELSE [ok |-> FALSE, val |-> VNone]

----------------------------------------------------------------------------
(* Exceptions: the type, the message as its segments from the outermost  *)
(* wrapper to the original cause, and the key or field the message names *)

Exc(type, msg, arg) == [type |-> type, msg |-> <<msg>>, arg |-> arg]

NoExc == [type |-> "", msg |-> <<>>, arg |-> VNone]

(* raise type(f"{prefix}: {e}") *)
Wrap(type, prefix, e) == [type |-> type, msg |-> <<prefix>> \o e.msg, arg |-> e.arg]

(* the classes a handler `except ValueError` catches *)
ValueErrors == {"ValueError", "JSONDecodeError"}

(* the classes a handler `except Exception` catches *)
Exceptions ==
    ValueErrors \cup {"TypeError", "KeyError", "AttributeError", "OSError",
                      "SerializationError", "DeserializationError"}

Chars_name == <<"n", "a", "m", "e">>

Chars_age == <<"a", "g", "e">>

Chars_email == <<"e", "m", "a", "i", "l">>

Chars_preferences == <<"p", "r", "e", "f", "e", "r", "e", "n", "c", "e", "s">>

Chars_created_at == <<"c", "r", "e", "a", "t", "e", "d", "_", "a", "t">>

Chars_last_updated == <<"l", "a", "s", "t", "_", "u", "p", "d", "a", "t", "e", "d">>

Chars_version == <<"_", "v", "e", "r", "s", "i", "o", "n">>

Chars_1_0 == <<"1", ".", "0">>

Chars_UnknownUser == <<"U", "n", "k", "n", "o", "w", "n", " ", "U", "s", "e", "r">>

Chars_UnknownEmail ==
    <<"u", "n", "k", "n", "o", "w", "n", "@", "e", "x", "a", "m", "p", "l", "e",
      ".", "c", "o", "m">>

----------------------------------------------------------------------------
(* UserProfile *)

validate_name(name) ==
    IF ~IsStr(name) THEN Exc("ValueError", "Name must be a string", VNone)
    ELSE IF Strip(name.s) = <<>> THEN Exc("ValueError", "Name cannot be empty", VNone)
    ELSE IF Len(name.s) > MaxNameLen
         THEN Exc("ValueError", "Name too long (max 100 characters)", VNone)
    ELSE NoExc

validate_age(age) ==
    IF ~IsInstanceInt(age) THEN Exc("ValueError", "Age must be an integer", VNone)
    ELSE IF age.n < 0 \/ age.n > MaxAge
         THEN Exc("ValueError", "Age must be between 0 and 150", VNone)
    ELSE NoExc

validate_email(email) ==
    IF ~IsStr(email) THEN Exc("ValueError", "Email must be a string", VNone)
    ELSE IF ~Contains(email.s, "@") \/ ~Contains(email.s, ".")
         THEN Exc("ValueError", "Invalid email format", VNone)
    ELSE NoExc

NoProfile ==
    [name |-> VNone, age |-> VNone, email |-> VNone, preferences |-> VNone,
     created_at |-> VNone, last_updated |-> VNone]

(* UserProfile.__init__ with the email validated before the age *)
UserProfile_init_email_first(name, age, email, preferences, h, t) ==
    LET e1 == validate_name(name)
        e2 == validate_email(email)
        e3 == validate_age(age)
        exc == IF e1 # NoExc THEN e1 ELSE IF e2 # NoExc THEN e2 ELSE e3
    IN  IF exc # NoExc THEN [ok |-> FALSE, exc |-> exc, profile |-> NoProfile]
        ELSE [ok |-> TRUE, exc |-> NoExc,
              profile |->
                [name |-> name, age |-> age, email |-> email,
                 preferences |-> IF Truthy(preferences, h) THEN preferences
                                 ELSE VDict(<<>>),
                 created_at |-> VStr(IsoFormat(t)),
                 last_updated |-> VStr(IsoFormat(t))]]

(* UserProfile.__init__ at clock reading t. A "dict" in preferences of   *)
(* the result is a dict only this profile holds; a "ref" is the caller's *)
(* own dict object.                                                      *)
UserProfile_init(name, age, email, preferences, h, t) ==
    LET e1 == validate_name(name)
        e2 == validate_age(age)
        e3 == validate_email(email)
        exc == IF e1 # NoExc THEN e1 ELSE IF e2 # NoExc THEN e2 ELSE e3
    IN  IF exc # NoExc THEN [ok |-> FALSE, exc |-> exc, profile |-> NoProfile]
        ELSE [ok |-> TRUE, exc |-> NoExc,
              profile |->
                [name |-> name, age |-> age, email |-> email,
                 preferences |-> IF Truthy(preferences, h) THEN preferences
                                 ELSE VDict(<<>>),
                 created_at |-> VStr(IsoFormat(t)),
                 last_updated |-> VStr(IsoFormat(t))]]

RECURSIVE ValidateEntries(_)
(* the validation loop of update_preferences over new_preferences.items() *)
ValidateEntries(entries) ==
    IF entries = <<>> THEN NoExc
    ELSE IF ~IsStr(Head(entries).k)
         THEN Exc("ValueError", "Preference keys must be strings", VNone)
    ELSE IF ~json_dumps(Head(entries).v, FALSE, FALSE).ok
         THEN Exc("ValueError", "Preference value is not JSON serializable",
                  Head(entries).k)
    ELSE ValidateEntries(Tail(entries))

RECURSIVE ValidPrefix(_)
(* the entries before the first one the validation loop rejects *)
ValidPrefix(entries) ==
    IF entries = <<>> \/ ValidateEntries(<<Head(entries)>>) # NoExc THEN <<>>
    ELSE <<Head(entries)>> \o ValidPrefix(Tail(entries))

(* update_preferences merging each entry as soon as it has validated it, *)
(* so that a failure leaves the entries before the offending one merged  *)
update_preferences_merging(profile, new_preferences, h, t) ==
    LET old == Entries(profile.preferences, h)
        new == Entries(new_preferences, h)
    IN  IF ~IsDictObj(new_preferences)
        THEN [ok |-> FALSE, entries |-> old, last_updated |-> profile.last_updated,
              exc |-> Exc("ValueError", "Preferences must be a dictionary", VNone)]
        ELSE IF ~IsDictObj(profile.preferences)
        THEN [ok |-> FALSE, entries |-> old, last_updated |-> profile.last_updated,
              exc |-> IF ValidateEntries(new) # NoExc THEN ValidateEntries(new)
                      ELSE Exc("AttributeError", "object has no attribute 'update'", VNone)]
        ELSE IF ValidateEntries(new) # NoExc
        THEN [ok |-> FALSE, entries |-> DictUpdate(old, ValidPrefix(new)),
              last_updated |-> profile.last_updated, exc |-> ValidateEntries(new)]
        ELSE [ok |-> TRUE, exc |-> NoExc, entries |-> DictUpdate(old, new),
              last_updated |-> VStr(IsoFormat(t))]

(* update_preferences assigning new_preferences instead of merging them *)
update_preferences_replacing(profile, new_preferences, h, t) ==
    LET old == Entries(profile.preferences, h)
        unchanged(exc) == [ok |-> FALSE, exc |-> exc, entries |-> old,
                           last_updated |-> profile.last_updated]
    IN  IF ~IsDictObj(new_preferences)
        THEN unchanged(Exc("ValueError", "Preferences must be a dictionary", VNone))
        ELSE IF ValidateEntries(Entries(new_preferences, h)) # NoExc
        THEN unchanged(ValidateEntries(Entries(new_preferences, h)))
        ELSE IF ~IsDictObj(profile.preferences)
        THEN unchanged(Exc("AttributeError", "object has no attribute 'update'", VNone))
        ELSE [ok |-> TRUE, exc |-> NoExc,
              entries |-> Entries(new_preferences, h),
              last_updated |-> VStr(IsoFormat(t))]

(* profile.update_preferences(new_preferences) at clock reading t: the   *)
(* exception raised, or else the new entries of the profile's dict and   *)
(* the new last_updated                                                  *)
update_preferences(profile, new_preferences, h, t) ==
    LET old == Entries(profile.preferences, h)
        unchanged(exc) == [ok |-> FALSE, exc |-> exc, entries |-> old,
                           last_updated |-> profile.last_updated]
    IN  IF ~IsDictObj(new_preferences)
        THEN unchanged(Exc("ValueError", "Preferences must be a dictionary", VNone))
        ELSE IF ValidateEntries(Entries(new_preferences, h)) # NoExc
        THEN unchanged(ValidateEntries(Entries(new_preferences, h)))
        ELSE IF ~IsDictObj(profile.preferences)
        THEN unchanged(Exc("AttributeError", "object has no attribute 'update'", VNone))
        ELSE [ok |-> TRUE, exc |-> NoExc,
              entries |-> DictUpdate(old, Entries(new_preferences, h)),
              last_updated |-> VStr(IsoFormat(t))]

to_dict(profile, h) ==
    VDict(<<E(VStr(Chars_name), profile.name),
            E(VStr(Chars_age), profile.age),
            E(VStr(Chars_email), profile.email),
            E(VStr(Chars_preferences), Snapshot(profile.preferences, h)),
            E(VStr(Chars_created_at), profile.created_at),
            E(VStr(Chars_last_updated), profile.last_updated),
            E(VStr(Chars_version), VStr(Chars_1_0))>>)

RequiredFields == <<Chars_name, Chars_age, Chars_email>>

(* from_dict reporting the last missing field instead of the first *)
from_dict_last_missing(data, h, t) ==
    LET missing == {i \in 1..Len(RequiredFields) : ~HasKey(data, VStr(RequiredFields[i]))}
        lastOne == CHOOSE i \in missing : \A j \in missing : i >= j
        r == UserProfile_init(DictGet(data, VStr(Chars_name), VNone),
                              DictGet(data, VStr(Chars_age), VNone),
                              DictGet(data, VStr(Chars_email), VNone),
                              DictGet(data, VStr(Chars_preferences), VDict(<<>>)),
                              h, t)
    IN  IF missing # {}
        THEN [ok |-> FALSE, profile |-> NoProfile,
              exc |-> Exc("DeserializationError", "Missing required field",
                          VStr(RequiredFields[lastOne]))]
        ELSE IF ~r.ok
        THEN [ok |-> FALSE, profile |-> NoProfile,
              exc |-> IF r.exc.type \in ValueErrors \cup {"TypeError"}
                      THEN Wrap("DeserializationError", "Invalid data in dictionary", r.exc)
                      ELSE r.exc]
        ELSE [ok |-> TRUE, exc |-> NoExc,
              profile |->
                [r.profile EXCEPT
                   !.created_at = DictGet(data, VStr(Chars_created_at), @),
                   !.last_updated = DictGet(data, VStr(Chars_last_updated), @)]]

(* from_dict restoring created_at but leaving last_updated as stamped *)
from_dict_created_only(data, h, t) ==
    LET missing == {i \in 1..Len(RequiredFields) : ~HasKey(data, VStr(RequiredFields[i]))}
        first == CHOOSE i \in missing : \A j \in missing : i <= j
        r == UserProfile_init(DictGet(data, VStr(Chars_name), VNone),
                              DictGet(data, VStr(Chars_age), VNone),
                              DictGet(data, VStr(Chars_email), VNone),
                              DictGet(data, VStr(Chars_preferences), VDict(<<>>)),
                              h, t)
    IN  IF missing # {}
        THEN [ok |-> FALSE, profile |-> NoProfile,
              exc |-> Exc("DeserializationError", "Missing required field",
                          VStr(RequiredFields[first]))]
        ELSE IF ~r.ok
        THEN [ok |-> FALSE, profile |-> NoProfile,
              exc |-> IF r.exc.type \in ValueErrors \cup {"TypeError"}
                      THEN Wrap("DeserializationError", "Invalid data in dictionary", r.exc)
                      ELSE r.exc]
        ELSE [ok |-> TRUE, exc |-> NoExc,
              profile |->
                [r.profile EXCEPT
                   !.created_at = DictGet(data, VStr(Chars_created_at), @)]]

(* UserProfile.from_dict(data) for the entries of a dict *)
from_dict(data, h, t) ==
    LET missing == {i \in 1..Len(RequiredFields) : ~HasKey(data, VStr(RequiredFields[i]))}
        first == CHOOSE i \in missing : \A j \in missing : i <= j
        r == UserProfile_init(DictGet(data, VStr(Chars_name), VNone),
                              DictGet(data, VStr(Chars_age), VNone),
                              DictGet(data, VStr(Chars_email), VNone),
                              DictGet(data, VStr(Chars_preferences), VDict(<<>>)),
                              h, t)
    IN  IF missing # {}
        THEN [ok |-> FALSE, profile |-> NoProfile,
              exc |-> Exc("DeserializationError", "Missing required field",
                          VStr(RequiredFields[first]))]
        ELSE IF ~r.ok
        THEN [ok |-> FALSE, profile |-> NoProfile,
              exc |-> IF r.exc.type \in ValueErrors \cup {"TypeError"}
                      THEN Wrap("DeserializationError", "Invalid data in dictionary", r.exc)
                      ELSE r.exc]
        ELSE [ok |-> TRUE, exc |-> NoExc,
              profile |->
                [r.profile EXCEPT
                   !.created_at = DictGet(data, VStr(Chars_created_at), @),
                   !.last_updated = DictGet(data, VStr(Chars_last_updated), @)]]

----------------------------------------------------------------------------
(* serialize_user_profile. file is what the destination does: "none" (no *)
(* filename given), "ok", "ioerror" or "permission".                     *)

SerializeFail(exc) == [ok |-> FALSE, exc |-> exc, text |-> <<>>]

(* the try block, lines 152-179: the text returned or the exception that *)
(* leaves the block                                                      *)
SerializeBody(profile, h, file) ==
    LET d == json_dumps(to_dict(profile, h), TRUE, TRUE)
        back == json_loads(d.text)
    IN  IF ~d.ok
        THEN SerializeFail(Exc("TypeError", "Object is not JSON serializable", VNone))
        ELSE IF ~back.ok
        THEN SerializeFail(Wrap("SerializationError", "Serialization integrity check failed",
                                Exc("JSONDecodeError", "Expecting value", VNone)))
        ELSE IF ~HasKey(back.val.items, VStr(Chars_name))
        THEN SerializeFail(Wrap("SerializationError", "Serialization integrity check failed",
                                Exc("KeyError", "name", VNone)))
        ELSE IF DictGet(back.val.items, VStr(Chars_name), VNone) # profile.name
        THEN SerializeFail(Exc("SerializationError",
                               "Data integrity check failed during serialization", VNone))
        ELSE IF file \in {"ioerror", "permission"}
        THEN SerializeFail(Wrap("SerializationError", "Failed to write to file",
                                Exc("OSError", file, VNone)))
        ELSE [ok |-> TRUE, exc |-> NoExc, text |-> d.text]

(* the except clauses with the first one re-raising what it caught *)
SerializeHandlers_reraising(r) ==
    IF r.ok THEN r
    ELSE IF r.exc.type \in ValueErrors \cup {"TypeError"}
    THEN r
    ELSE IF r.exc.type = "AttributeError"
    THEN SerializeFail(Wrap("SerializationError",
                            "Invalid object structure during serialization", r.exc))
    ELSE IF r.exc.type \in Exceptions
    THEN SerializeFail(Wrap("SerializationError", "Unexpected error during serialization", r.exc))
    ELSE r

(* the except clauses, lines 181-194 *)
SerializeHandlers(r) ==
    IF r.ok THEN r
    ELSE IF r.exc.type \in ValueErrors \cup {"TypeError"}
    THEN SerializeFail(Wrap("SerializationError", "Data type error during serialization", r.exc))
    ELSE IF r.exc.type = "AttributeError"
    THEN SerializeFail(Wrap("SerializationError",
                            "Invalid object structure during serialization", r.exc))
    ELSE IF r.exc.type \in Exceptions
    THEN SerializeFail(Wrap("SerializationError", "Unexpected error during serialization", r.exc))
    ELSE r

serialize_user_profile(profile, h, file) ==
    SerializeHandlers(SerializeBody(profile, h, file))

----------------------------------------------------------------------------
(* deserialize_user_profile. source is where the text comes from: "arg"  *)
(* (no filename given), "file" (read from the file), or the failure of   *)
(* the read: "notfound", "ioerror", "permission".                        *)

DeserializeFail(exc) == [ok |-> FALSE, exc |-> exc, profile |-> NoProfile]

(* the try block without the isinstance check of step 3: a value that   *)
(* is no dict has no get()                                               *)
DeserializeBody_no_shape_check(json_data, source, h, t) ==
    LET parsed == json_loads(json_data) IN
    IF source = "notfound"
    THEN DeserializeFail(Exc("DeserializationError", "File not found", VNone))
    ELSE IF source \in {"ioerror", "permission"}
    THEN DeserializeFail(Wrap("DeserializationError", "Error reading file",
                              Exc("OSError", source, VNone)))
    ELSE IF json_data = <<>>
    THEN DeserializeFail(Exc("DeserializationError",
                             "No JSON data provided for deserialization", VNone))
    ELSE IF ~parsed.ok
    THEN DeserializeFail(Wrap("DeserializationError", "Invalid JSON format",
                              Exc("JSONDecodeError", "Expecting value", VNone)))
    ELSE IF parsed.val.t # "dict"
    THEN DeserializeFail(Exc("AttributeError", "object has no attribute 'get'", VNone))
    ELSE from_dict(parsed.val.items, h, t)

(* the try block refusing every schema version but "1.0" *)
DeserializeBody_strict_version(json_data, source, h, t) ==
    LET parsed == json_loads(json_data) IN
    IF source = "notfound"
    THEN DeserializeFail(Exc("DeserializationError", "File not found", VNone))
    ELSE IF source \in {"ioerror", "permission"}
    THEN DeserializeFail(Wrap("DeserializationError", "Error reading file",
                              Exc("OSError", source, VNone)))
    ELSE IF json_data = <<>>
    THEN DeserializeFail(Exc("DeserializationError",
                             "No JSON data provided for deserialization", VNone))
    ELSE IF ~parsed.ok
    THEN DeserializeFail(Wrap("DeserializationError", "Invalid JSON format",
                              Exc("JSONDecodeError", "Expecting value", VNone)))
    ELSE IF parsed.val.t # "dict"
    THEN DeserializeFail(Exc("DeserializationError",
                             "JSON data must represent a dictionary", VNone))
    ELSE IF DictGet(parsed.val.items, VStr(Chars_version), VStr(Chars_1_0)) # VStr(Chars_1_0)
    THEN DeserializeFail(Exc("DeserializationError", "Unsupported schema version", VNone))
    ELSE from_dict(parsed.val.items, h, t)

(* the try block, lines 213-247 *)
DeserializeBody(json_data, source, h, t) ==
    LET parsed == json_loads(json_data) IN
    IF source = "notfound"
    THEN DeserializeFail(Exc("DeserializationError", "File not found", VNone))
    ELSE IF source \in {"ioerror", "permission"}
    THEN DeserializeFail(Wrap("DeserializationError", "Error reading file",
                              Exc("OSError", source, VNone)))
    ELSE IF json_data = <<>>
    THEN DeserializeFail(Exc("DeserializationError",
                             "No JSON data provided for deserialization", VNone))
    ELSE IF ~parsed.ok
    THEN DeserializeFail(Wrap("DeserializationError", "Invalid JSON format",
                              Exc("JSONDecodeError", "Expecting value", VNone)))
    ELSE IF parsed.val.t # "dict"
    THEN DeserializeFail(Exc("DeserializationError",
                             "JSON data must represent a dictionary", VNone))
    ELSE from_dict(parsed.val.items, h, t)

(* the except clauses with the last one raising the serializer's class *)
DeserializeHandlers_wrong_class(r) ==
    IF r.ok THEN r
    ELSE IF r.exc.type = "KeyError"
    THEN DeserializeFail(Wrap("DeserializationError",
                              "Missing required field in JSON data", r.exc))
    ELSE IF r.exc.type \in ValueErrors
    THEN DeserializeFail(Wrap("DeserializationError",
                              "Data validation error during deserialization", r.exc))
    ELSE IF r.exc.type \in Exceptions
    THEN DeserializeFail(Wrap("SerializationError",
                              "Unexpected error during deserialization", r.exc))
    ELSE r

(* the except clauses, lines 249-262 *)
DeserializeHandlers(r) ==
    IF r.ok THEN r
    ELSE IF r.exc.type = "KeyError"
    THEN DeserializeFail(Wrap("DeserializationError",
                              "Missing required field in JSON data", r.exc))
    ELSE IF r.exc.type \in ValueErrors
    THEN DeserializeFail(Wrap("DeserializationError",
                              "Data validation error during deserialization", r.exc))
    ELSE IF r.exc.type \in Exceptions
    THEN DeserializeFail(Wrap("DeserializationError",
                              "Unexpected error during deserialization", r.exc))
    ELSE r

deserialize_user_profile(json_data, source, h, t) ==
    DeserializeHandlers(DeserializeBody(json_data, source, h, t))

----------------------------------------------------------------------------
(* backup_deserialization_attempt *)

(* int(age) if isinstance(age, (int, float, str)) and str(age).isdigit() *)
(* else 0                                                                *)
(* ok = FALSE is the ValueError of int()                                 *)
RecoverAge(age, h) ==
    IF age.t \in {"int", "bool", "float", "str"} /\ str_isdigit(StrOf(age, h).s)
    THEN IF age.t # "str" THEN [ok |-> TRUE, val |-> VInt(age.n)]
         ELSE IF IsDigit(age.s) THEN [ok |-> TRUE, val |-> VInt(DigitsToNat(age.s))]
         ELSE [ok |-> FALSE, val |-> VNone]
    ELSE [ok |-> TRUE, val |-> VInt(0)]

(* the try block converting name and email with str() whatever they are *)
BackupBody_no_defaults(json_data, h, t) ==
    LET parsed == json_loads(json_data)
        data == parsed.val.items
        name == DictGet(data, VStr(Chars_name), VStr(Chars_UnknownUser))
        age == DictGet(data, VStr(Chars_age), VInt(0))
        email == DictGet(data, VStr(Chars_email), VStr(Chars_UnknownEmail))
        preferences == DictGet(data, VStr(Chars_preferences), VDict(<<>>))
    IN  IF ~parsed.ok
        THEN DeserializeFail(Exc("JSONDecodeError", "Expecting value", VNone))
        ELSE IF parsed.val.t # "dict"
        THEN DeserializeFail(Exc("AttributeError", "object has no attribute 'get'", VNone))
        ELSE IF ~RecoverAge(age, h).ok
        THEN DeserializeFail(Exc("ValueError", "invalid literal for int() with base 10", VNone))
        ELSE UserProfile_init(
                 StrOf(name, h),
                 RecoverAge(age, h).val,
                 StrOf(email, h),
                 IF IsDictObj(preferences) THEN preferences ELSE VDict(<<>>),
                 h, t)

(* the try block, lines 297-317 *)
BackupBody(json_data, h, t) ==
    LET parsed == json_loads(json_data)
        data == parsed.val.items
        name == DictGet(data, VStr(Chars_name), VStr(Chars_UnknownUser))
        age == DictGet(data, VStr(Chars_age), VInt(0))
        email == DictGet(data, VStr(Chars_email), VStr(Chars_UnknownEmail))
        preferences == DictGet(data, VStr(Chars_preferences), VDict(<<>>))
    IN  IF ~parsed.ok
        THEN DeserializeFail(Exc("JSONDecodeError", "Expecting value", VNone))
        ELSE IF parsed.val.t # "dict"
        THEN DeserializeFail(Exc("AttributeError", "object has no attribute 'get'", VNone))
        ELSE IF ~RecoverAge(age, h).ok
        THEN DeserializeFail(Exc("ValueError", "invalid literal for int() with base 10", VNone))
        ELSE UserProfile_init(
                 IF Truthy(name, h) THEN StrOf(name, h) ELSE VStr(Chars_UnknownUser),
                 RecoverAge(age, h).val,
                 IF Truthy(email, h) THEN StrOf(email, h) ELSE VStr(Chars_UnknownEmail),
                 IF IsDictObj(preferences) THEN preferences ELSE VDict(<<>>),
                 h, t)

(* the except clause catching ValueError only *)
BackupHandlers_value_errors(r) ==
    IF ~r.ok /\ r.exc.type \in ValueErrors THEN DeserializeFail(NoExc) ELSE r

(* the except clause, lines 319-321: an exception it catches becomes the *)
(* return value None (ok = FALSE and no exception)                       *)
BackupHandlers(r) ==
    IF ~r.ok /\ r.exc.type \in Exceptions THEN DeserializeFail(NoExc) ELSE r

backup_deserialization_attempt(json_data, h, t) ==
    BackupHandlers(BackupBody(json_data, h, t))

----------------------------------------------------------------------------
(* The callers' values *)

Chars_Al == <<"A", "l">>

Chars_mail == <<"a", "@", "b", ".", "c">>

Chars_theme == <<"t", "h", "e", "m", "e">>

Chars_dark == <<"d", "a", "r", "k">>

Chars_light == <<"l", "i", "g", "h", "t">>

Chars_lang == <<"l", "a", "n", "g">>

Chars_en == <<"e", "n">>

Chars_k == <<"k">>

XName(len) == [i \in 1..len |-> "x"]

(* the dict objects the caller holds and passes to UserProfile(...):     *)
(* {"theme": "dark"}, {} and {"k": object()}, at addresses 1..3          *)
CallerDicts ==
    << <<E(VStr(Chars_theme), VStr(Chars_dark))>>,
       <<>>,
       <<E(VStr(Chars_k), VObj)>> >>

CallerAddrs == 1..Len(CallerDicts)

(* a timestamp later than every reading of the clock *)
Chars_future == <<"T", "9", "9">>

(* a timestamp earlier than every reading of the clock but the first *)
Chars_past == <<"T", "0", "0">>

Record(name, age, email, more) ==
    VDict(<<E(VStr(Chars_name), name), E(VStr(Chars_age), age),
            E(VStr(Chars_email), email)>> \o more)

TextOf(v) == json_dumps(v, TRUE, FALSE).text

(* '{"invalid: json}': an unterminated string after the brace *)
Text_invalid == <<Tok("{"), Tok("bad")>>

(* '{"name": "Partial"}' *)
Text_partial == TextOf(VDict(<<E(VStr(Chars_name), VStr(<<"P">>))>>))

Text_minimal == TextOf(Record(VStr(Chars_Al), VInt(30), VStr(Chars_mail), <<>>))

Text_created_only ==
    TextOf(Record(VStr(Chars_Al), VInt(30), VStr(Chars_mail),
                  <<E(VStr(Chars_created_at), VStr(Chars_future))>>))

(* '{"name": "John", "age": "invalid", "email": ..., "preferences": {}}' *)
Text_corrupted ==
    TextOf(Record(VStr(<<"J">>), VStr(<<"i", "n", "v">>), VStr(Chars_mail),
                  <<E(VStr(Chars_preferences), VDict(<<>>))>>))

----------------------------------------------------------------------------
(* The state: the dict objects (heap), the profiles the caller holds, the *)
(* clock, and what the last call was given and answered                   *)

NoCall ==
    [op |-> "none", ok |-> TRUE, exc |-> NoExc, pid |-> 0, args |-> <<>>, text |-> <<>>]

Call(op, ok, exc, pid, args, text) ==
    [op |-> op, ok |-> ok, exc |-> exc, pid |-> pid, args |-> args, text |-> text]

(* the filename argument of a call, as what the file system does with it *)
Filename(w) == VStr(<<w>>)

(* no InventoryItem has been constructed yet *)
NoItem == [made |-> FALSE, item_id |-> VNone, name |-> VNone, quantity |-> VNone]

(* Employee._employee_count = 0, and no Employee object exists *)
NoStaff == [employee_count |-> 0, objects |-> <<>>]

(* performance_timer = TimerDecorator(verbose=True, store_results=True) is *)
(* made when the module is loaded; no function is decorated, none runs    *)
TimerAtLoad ==
    [instances |-> << [verbose |-> TRUE, store_results |-> TRUE,
                       timing_data |-> <<>>, calls |-> <<>>] >>,
     globals |-> <<>>,
     stack |-> <<>>]

Init ==
    /\ heap = CallerDicts
    /\ profiles = <<>>
    /\ now = 0
    /\ last = NoCall
    /\ item = NoItem
    /\ books = <<>>
    /\ staff = NoStaff
    /\ timer = TimerAtLoad

(* the profile as the caller holds it: its own new dict goes on the heap *)
Held(profile, h) ==
    IF profile.preferences.t = "dict"
    THEN [profile EXCEPT !.preferences = VRef(Len(h) + 1)]
    ELSE profile

HeapWith(profile, h) ==
    IF profile.preferences.t = "dict" THEN Append(h, profile.preferences.items) ELSE h

(* time passes; datetime.now() is taken never to run backwards *)
Tick ==
    /\ now < MaxClock
    /\ now' = now + 1
    /\ last' = Call("tick", TRUE, NoExc, 0, <<>>, <<>>)
    /\ UNCHANGED <<heap, profiles>>
    /\ UNCHANGED others

(* UserProfile(name, age, email, preferences) *)
Construct(name, age, email, preferences) ==
    LET r == UserProfile_init(name, age, email, preferences, heap, now) IN
    /\ Len(profiles) < MaxProfiles
    /\ profiles' = IF r.ok THEN Append(profiles, Held(r.profile, heap)) ELSE profiles
    /\ heap' = IF r.ok THEN HeapWith(r.profile, heap) ELSE heap
    /\ last' = Call("construct", r.ok, r.exc, IF r.ok THEN Len(profiles) + 1 ELSE 0,
                    <<name, age, email, Snapshot(preferences, heap), preferences>>, <<>>)
    /\ UNCHANGED now
    /\ UNCHANGED others

(* update_preferences stamping created_at as well as last_updated *)
UpdatePreferences_restamping(p, new_preferences) ==
    LET r == update_preferences(profiles[p], new_preferences, heap, now) IN
    /\ profiles' = [profiles EXCEPT ![p].last_updated = r.last_updated,
                                    ![p].created_at = r.last_updated]
    /\ heap' = IF profiles[p].preferences.t = "ref"
               THEN [heap EXCEPT ![profiles[p].preferences.n] = r.entries]
               ELSE heap
    /\ last' = Call("update", r.ok, r.exc, p, <<Snapshot(new_preferences, heap)>>, <<>>)
    /\ UNCHANGED now
    /\ UNCHANGED others

(* profiles[p].update_preferences(new_preferences) *)
UpdatePreferences(p, new_preferences) ==
    LET r == update_preferences(profiles[p], new_preferences, heap, now) IN
    /\ profiles' = [profiles EXCEPT ![p].last_updated = r.last_updated]
    /\ heap' = IF profiles[p].preferences.t = "ref"
               THEN [heap EXCEPT ![profiles[p].preferences.n] = r.entries]
               ELSE heap
    /\ last' = Call("update", r.ok, r.exc, p, <<Snapshot(new_preferences, heap)>>, <<>>)
    /\ UNCHANGED now
    /\ UNCHANGED others

(* serialize_user_profile stamping last_updated on the profile it saves *)
Encode_touching(p, file) ==
    LET r == serialize_user_profile(profiles[p], heap, file) IN
    /\ last' = Call("encode", r.ok, r.exc, p, <<Filename(file)>>, r.text)
    /\ profiles' = [profiles EXCEPT ![p].last_updated = VStr(IsoFormat(now))]
    /\ UNCHANGED <<heap, now>>
    /\ UNCHANGED others

(* serialize_user_profile(profiles[p], filename) *)
Encode(p, file) ==
    LET r == serialize_user_profile(profiles[p], heap, file) IN
    /\ last' = Call("encode", r.ok, r.exc, p, <<Filename(file)>>, r.text)
    /\ UNCHANGED <<heap, profiles, now>>
    /\ UNCHANGED others

(* deserialize_user_profile(json_data, filename) *)
Decode(json_data, source) ==
    LET r == deserialize_user_profile(json_data, source, heap, now) IN
    /\ Len(profiles) < MaxProfiles
    /\ profiles' = IF r.ok THEN Append(profiles, Held(r.profile, heap)) ELSE profiles
    /\ heap' = IF r.ok THEN HeapWith(r.profile, heap) ELSE heap
    /\ last' = Call("decode", r.ok, r.exc, IF r.ok THEN Len(profiles) + 1 ELSE 0,
                    <<Filename(source)>>, json_data)
    /\ UNCHANGED now
    /\ UNCHANGED others

(* backup_deserialization_attempt(json_data) *)
RecoverFromCorrupted(json_data) ==
    LET r == backup_deserialization_attempt(json_data, heap, now) IN
    /\ Len(profiles) < MaxProfiles
    /\ profiles' = IF r.ok THEN Append(profiles, Held(r.profile, heap)) ELSE profiles
    /\ heap' = IF r.ok THEN HeapWith(r.profile, heap) ELSE heap
    /\ last' = Call("recover", r.ok, r.exc, IF r.ok THEN Len(profiles) + 1 ELSE 0,
                    <<>>, json_data)
    /\ UNCHANGED now
    /\ UNCHANGED others

ConstructInputs ==
    { <<VStr(Chars_Al), VInt(0), VStr(Chars_mail), VNone>>,
      <<VStr(Chars_Al), VInt(150), VStr(Chars_mail), VRef(1)>>,
      <<VStr(Chars_Al), VInt(0), VStr(Chars_mail), VRef(3)>>,
      <<VStr(<<"T">>), VStr(<<"x">>), VStr(<<"a">>), VNone>> }

UpdateInputs ==
    { VDict(<<E(VStr(Chars_theme), VStr(Chars_light))>>),
      VDict(<<E(VStr(Chars_lang), VStr(Chars_en)), E(VStr(Chars_k), VObj)>>),
      VDict(<<E(VStr(Chars_lang), VStr(Chars_en)), E(VInt(1), VStr(Chars_en))>>),
      VList(<<>>) }

EncodeFiles == {"none", "ioerror"}

(* the calls of deserialize_user_profile: the text and where it comes from *)
DecodeInputs ==
    { <<Text_invalid, "arg">>, <<Text_created_only, "arg">>, <<Text_minimal, "notfound">> }

RecoverTexts == {Text_corrupted}

Next ==
    \/ Tick
    \/ \E c \in ConstructInputs : Construct(c[1], c[2], c[3], c[4])
    \/ \E p \in 1..Len(profiles) : \E u \in UpdateInputs : UpdatePreferences(p, u)
    \/ \E p \in 1..Len(profiles) : \E f \in EncodeFiles : Encode(p, f)
    \/ \E d \in DecodeInputs \cup {<<last.text, "arg">>} : Decode(d[1], d[2])
    \/ \E t \in RecoverTexts : RecoverFromCorrupted(t)

Spec == Init /\ [][Next]_vars

----------------------------------------------------------------------------
(* The constructor alone, on every combination of argument values: the   *)
(* caller makes one call, at any reading of the clock                     *)

(* nothing has been called yet *)
Fresh == profiles = <<>> /\ last.op \in {"none", "tick"}

NameInputs ==
    { VStr(Chars_Al), VStr(XName(MaxNameLen)), VStr(XName(MaxNameLen + 1)),
      VStr(<<>>), VStr(<<" ", " ">>), VStr(<<" ", "A", " ">>), VInt(5), VNone }

AgeInputs ==
    { VInt(0 - 1), VInt(0), VInt(25), VInt(MaxAge), VInt(MaxAge + 1), VBool(TRUE),
      VStr(<<"2", "5">>), VFloat(250), VNone }

EmailInputs ==
    { VStr(Chars_mail), VStr(<<"a", "b", "c">>), VStr(<<"a", "@", "b">>),
      VStr(<<"a", ".", "b">>), VInt(5) }

PreferencesInputs ==
    { VNone, VRef(1), VRef(2), VRef(3),
      VDict(<<E(VStr(Chars_theme), VStr(Chars_dark))>>),
      VDict(<<E(VInt(1), VStr(Chars_dark))>>),
      VList(<<VInt(1)>>) }

NextConstruct ==
    \/ Fresh /\ Tick
    \/ /\ Fresh
       /\ \E name \in NameInputs : \E age \in AgeInputs :
            \E email \in EmailInputs : \E preferences \in PreferencesInputs :
               Construct(name, age, email, preferences)

SpecConstruct == Init /\ [][NextConstruct]_vars

----------------------------------------------------------------------------
(* One profile and its updates: new_preferences is every dict of at most *)
(* MaxEntries of the entries below, in every order, or no dict at all    *)

MaxEntries == 2

EntryPool ==
    { E(VStr(Chars_theme), VStr(Chars_light)),
      E(VStr(Chars_lang), VStr(Chars_en)),
      E(VStr(Chars_k), VObj),
      E(VInt(1), VStr(Chars_en)) }

EntrySeqs ==
    UNION { { s \in [1..n -> EntryPool] : \A i, j \in 1..n : i # j => s[i].k # s[j].k }
            : n \in 0..MaxEntries }

UpdateInputsAll ==
    { VDict(s) : s \in EntrySeqs } \cup { VList(<<>>), VNone, VStr(Chars_theme), VRef(1) }

FirstConstructInputs ==
    { <<VStr(Chars_Al), VInt(0), VStr(Chars_mail), VNone>>,
      <<VStr(Chars_Al), VInt(0), VStr(Chars_mail), VRef(1)>>,
      <<VStr(Chars_Al), VInt(0), VStr(Chars_mail), VList(<<VInt(1)>>)>> }

NextUpdate ==
    \/ Tick
    \/ /\ profiles = <<>>
       /\ \E c \in FirstConstructInputs : Construct(c[1], c[2], c[3], c[4])
    \/ /\ profiles # <<>>
       /\ \E u \in UpdateInputsAll : UpdatePreferences(1, u)

SpecUpdate == Init /\ [][NextUpdate]_vars

----------------------------------------------------------------------------
(* Decoding and recovery alone, on records with every combination of the *)
(* field values below and on texts that are no record                    *)

Missing == V("missing", <<>>, 0, <<>>)

Field(key, v) == IF v = Missing THEN <<>> ELSE <<E(VStr(key), v)>>

RecordNames == { VStr(Chars_Al), VStr(<<" ">>), VStr(<<>>), VInt(5), VNone, Missing }

RecordAges ==
    { VInt(30), VInt(0 - 1), VInt(MaxAge + 1), VStr(<<"i", "n", "v">>),
      VStr(<<"2", "5">>), VFloat(250), VBool(TRUE), VNone, VStr(<<SuperscriptTwo>>),
      Missing }

RecordEmails == { VStr(Chars_mail), VStr(<<"a", "b", "c">>), VStr(<<>>), VNone, Missing }

RecordExtras ==
    { <<>>,
      <<E(VStr(Chars_created_at), VStr(Chars_future))>>,
      <<E(VStr(Chars_last_updated), VStr(Chars_past))>>,
      <<E(VStr(Chars_created_at), VStr(Chars_past)),
        E(VStr(Chars_last_updated), VStr(Chars_future))>>,
      <<E(VStr(Chars_preferences), VList(<<VInt(1)>>))>>,
      <<E(VStr(Chars_preferences), VDict(<<E(VStr(Chars_theme), VStr(Chars_dark))>>))>>,
      <<E(VStr(Chars_version), VStr(<<"2", ".", "0">>))>>,
      <<E(VStr(Chars_created_at), VNone)>> }

RecordTexts ==
    { TextOf(VDict(Field(Chars_name, n) \o Field(Chars_age, a) \o Field(Chars_email, e) \o x))
      : n \in RecordNames, a \in RecordAges, e \in RecordEmails, x \in RecordExtras }

(* the empty text, white space, a broken text, a value followed by more, *)
(* a number, a list, a string, null                                      *)
OtherTexts ==
    { <<>>, <<Ws>>, Text_invalid, Text_minimal \o <<Tok("}")>>,
      TextOf(VInt(5)), TextOf(VList(<<VInt(1)>>)),
      TextOf(VStr(Chars_Al)), TextOf(VNone) }

DecodeInputsAll ==
    { <<t, "arg">> : t \in RecordTexts \cup OtherTexts }
    \cup { <<Text_minimal, s>> : s \in {"file", "notfound", "ioerror", "permission"} }
    \cup { <<Text_invalid, "file">>, <<<<>>, "file">> }

NextDecode ==
    \/ Fresh /\ Tick
    \/ /\ Fresh
       /\ \E d \in DecodeInputsAll : Decode(d[1], d[2])
    \/ /\ Fresh
       /\ \E t \in RecordTexts \cup OtherTexts : RecoverFromCorrupted(t)

SpecDecode == Init /\ [][NextDecode]_vars

----------------------------------------------------------------------------
(* One profile, constructed or decoded, then updated and encoded any     *)
(* number of times while time passes between the calls                    *)

(* time passes between two calls *)
Wait ==
    /\ now < MaxClock
    /\ now' = now + 1
    /\ UNCHANGED <<heap, profiles, last>>
    /\ UNCHANGED others

(* profiles[p].name = v: the attributes of a profile are plain ones, *)
(* which the caller can assign                                        *)
SetName(p, v) ==
    /\ profiles[p].name # v
    /\ profiles' = [profiles EXCEPT ![p].name = v]
    /\ last' = Call("setattr", TRUE, NoExc, p, <<v>>, <<>>)
    /\ UNCHANGED <<heap, now>>
    /\ UNCHANGED others

(* a datetime, which the encoder writes as text, and a number *)
AssignedNames == { VDatetime(0), VInt(5) }

EncodeConstructInputs ==
    { <<VStr(Chars_Al), VInt(0), VStr(Chars_mail), p>> :
        p \in { VNone, VRef(1), VRef(3),
                VDict(<<E(VStr(Chars_k), VDatetime(0))>>),
                VList(<<VObj>>) } }

EncodeDecodeInputs ==
    { Text_minimal, Text_created_only,
      TextOf(Record(VStr(Chars_Al), VInt(30), VStr(Chars_mail),
                    <<E(VStr(Chars_created_at), VStr(Chars_past)),
                      E(VStr(Chars_last_updated), VStr(Chars_past)),
                      E(VStr(Chars_preferences),
                        VDict(<<E(VStr(Chars_theme), VStr(Chars_dark))>>))>>)) }

EncodeUpdateInputs ==
    { VDict(<<E(VStr(Chars_theme), VStr(Chars_light))>>),
      VDict(<<E(VStr(Chars_lang), VStr(Chars_en)), E(VStr(Chars_k), VObj)>>),
      VNone }

AllFiles == {"none", "ok", "ioerror", "permission"}

NextEncode ==
    \/ Wait
    \/ /\ profiles = <<>>
       /\ \E c \in EncodeConstructInputs : Construct(c[1], c[2], c[3], c[4])
    \/ /\ profiles = <<>>
       /\ \E t \in EncodeDecodeInputs : Decode(t, "arg")
    \/ /\ profiles # <<>>
       /\ \E u \in EncodeUpdateInputs : UpdatePreferences(1, u)
    \/ /\ profiles # <<>>
       /\ \E f \in AllFiles : Encode(1, f)
    \/ /\ profiles # <<>>
       /\ \E v \in AssignedNames : SetName(1, v)

SpecEncode == Init /\ [][NextEncode]_vars

----------------------------------------------------------------------------
(* Properties *)

(* a == b for two preferences values *)
PrefsEq(a, b, h) ==
    IF IsDictObj(a) /\ IsDictObj(b) THEN DictEq(Entries(a, h), Entries(b, h))
    ELSE a.t = b.t /\ a = b

(* Decode(Encode(p)) succeeds and gives back every field of p *)
RoundTrip(p) ==
    LET e == serialize_user_profile(p, heap, "none")
        d == deserialize_user_profile(e.text, "arg", heap, now)
    IN  /\ e.ok
        /\ d.ok
        /\ d.profile.name = p.name
        /\ d.profile.age = p.age
        /\ d.profile.email = p.email
        /\ PrefsEq(d.profile.preferences, p.preferences, heap)
        /\ d.profile.created_at = p.created_at
        /\ d.profile.last_updated = p.last_updated

(* C1: a profile that Construct has just accepted, whatever preferences  *)
(* it was given, encodes, and decoding that text succeeds and gives a    *)
(* profile with the same name, age, email, preferences, createdAt and    *)
(* lastUpdated.                                                          *)
C1_RoundTrip ==
    (last.op = "construct" /\ last.ok) => RoundTrip(profiles[last.pid])

NameAccepted(v) == IsStr(v) /\ Strip(v.s) # <<>> /\ Len(v.s) <= MaxNameLen

(* an integer of the data model: a number, not a boolean *)
AgeAccepted(v) == v.t = "int" /\ 0 <= v.n /\ v.n <= MaxAge

EmailAccepted(v) == IsStr(v) /\ Contains(v.s, "@") /\ Contains(v.s, ".")

Encodable(v) == json_dumps(v, FALSE, TRUE).ok

PreferencesAccepted(v, h) ==
    /\ IsDictObj(v)
    /\ \A i \in 1..Len(Entries(v, h)) :
          IsStr(Entries(v, h)[i].k) /\ Encodable(Entries(v, h)[i].v)

(* C2: every profile that exists satisfies the field constraints: name   *)
(* is text, non-empty after trimming, of length at most 100; age is an   *)
(* integer in 0..150; email contains '@' and '.'; preferences is a       *)
(* mapping with text keys whose values can all be encoded.               *)
C2_FieldConstraints ==
    \A i \in 1..Len(profiles) :
        /\ NameAccepted(profiles[i].name)
        /\ AgeAccepted(profiles[i].age)
        /\ EmailAccepted(profiles[i].email)
        /\ PreferencesAccepted(profiles[i].preferences, heap)

(* C3: UpdatePreferences on one profile changes neither the preferences  *)
(* of any other profile nor a mapping object that the caller holds and   *)
(* passed to a constructor.                                              *)
C3_Ownership ==
    [][ last'.op = "update" =>
          /\ \A q \in 1..Len(profiles) :
                q # last'.pid =>
                   Snapshot(profiles'[q].preferences, heap')
                     = Snapshot(profiles[q].preferences, heap)
          /\ \A a \in CallerAddrs : heap'[a] = heap[a] ]_vars

(* an entry update_preferences rejects *)
EntryBad(e) == ~IsStr(e.k) \/ ~json_dumps(e.v, FALSE, FALSE).ok

(* new_preferences that update_preferences must reject *)
BadInput(v) == v.t # "dict" \/ \E i \in 1..Len(v.items) : EntryBad(v.items[i])

FirstBad(v) ==
    v.items[CHOOSE i \in 1..Len(v.items) :
               EntryBad(v.items[i]) /\ \A j \in 1..(i - 1) : ~EntryBad(v.items[j])]

(* the preferences and lastUpdated of profile p are what they were *)
UpdateFrame(p) ==
    /\ Entries(profiles'[p].preferences, heap') = Entries(profiles[p].preferences, heap)
    /\ profiles'[p].last_updated = profiles[p].last_updated

(* C4 as claimed: an UpdatePreferences that fails because newEntries is  *)
(* no mapping, has a non-text key or has a value that cannot be encoded  *)
(* fails with a validation error that names the offending key, and       *)
(* leaves preferences and lastUpdated as they were.                      *)
C4_Original ==
    [][ (last'.op = "update" /\ ~last'.ok /\ BadInput(last'.args[1])) =>
          /\ last'.exc.type = "ValueError"
          /\ last'.args[1].t = "dict" => last'.exc.arg = FirstBad(last'.args[1]).k
          /\ UpdateFrame(last'.pid) ]_vars

(* C4 as amended: an UpdatePreferences whose newEntries is no mapping,   *)
(* has a non-text key or has a value that cannot be encoded fails with a *)
(* validation error, which names the offending key when the first        *)
(* offending entry has a text key and a value that cannot be encoded and *)
(* names no key otherwise; preferences and lastUpdated are exactly what  *)
(* they were: no entry of newEntries has been merged.                    *)
C4_AtomicFailure ==
    [][ (last'.op = "update" /\ BadInput(last'.args[1])) =>
          /\ ~last'.ok
          /\ last'.exc.type = "ValueError"
          /\ last'.exc.arg =
                IF last'.args[1].t = "dict" /\ IsStr(FirstBad(last'.args[1]).k)
                THEN FirstBad(last'.args[1]).k ELSE VNone
          /\ UpdateFrame(last'.pid) ]_vars

(* a failed update whose first entry is valid and new to the profile and *)
(* whose second entry has a value that cannot be encoded                 *)
C4_Witness ==
    /\ last.op = "update"
    /\ ~last.ok
    /\ last.args[1] = VDict(<<E(VStr(Chars_lang), VStr(Chars_en)), E(VStr(Chars_k), VObj)>>)
    /\ last.exc.arg = VStr(Chars_k)
    /\ IsDictObj(profiles[1].preferences)
    /\ Entries(profiles[1].preferences, heap) # <<>>
    /\ ~HasKey(Entries(profiles[1].preferences, heap), VStr(Chars_lang))

IsTimestamp(v) == IsStr(v) /\ IsIso(v.s)

(* C5: in every profile lastUpdated is greater than or equal to          *)
(* createdAt.                                                            *)
C5_TimestampOrder ==
    \A i \in 1..Len(profiles) :
        /\ IsTimestamp(profiles[i].created_at)
        /\ IsTimestamp(profiles[i].last_updated)
        /\ IsoTime(profiles[i].created_at.s) <= IsoTime(profiles[i].last_updated.s)

(* C6: Decode of any text either returns a profile or fails with         *)
(* DeserializationError; no other exception type leaves it.              *)
C6_DecodeBoundary ==
    last.op = "decode" =>
        IF last.ok
        THEN last.exc = NoExc /\ last.pid = Len(profiles) /\ last.pid > 0
        ELSE last.exc.type = "DeserializationError" /\ profiles = <<>>

(* Decode of a text the parser rejects has failed with DeserializationError *)
C6_Witness ==
    /\ last.op = "decode"
    /\ last.text = Text_invalid
    /\ ~last.ok
    /\ last.exc.type = "DeserializationError"

(* C7: RecoverFromCorrupted raises nothing: it returns a profile or      *)
(* null, and it returns a profile only when the text parses to a record  *)
(* and the fields of the profile passed the constructor's validation.    *)
C7_RecoverNeverRaises ==
    last.op = "recover" =>
        /\ last.exc = NoExc
        /\ IF last.ok
           THEN /\ last.pid = Len(profiles) /\ last.pid > 0
                /\ json_loads(last.text).ok
                /\ json_loads(last.text).val.t = "dict"
                /\ validate_name(profiles[last.pid].name) = NoExc
                /\ validate_age(profiles[last.pid].age) = NoExc
                /\ validate_email(profiles[last.pid].email) = NoExc
           ELSE profiles = <<>>

(* recovery from a text whose top-level value is a list returned null *)
C7_Witness ==
    /\ last.op = "recover"
    /\ last.text = TextOf(VList(<<VInt(1)>>))
    /\ ~last.ok
    /\ last.exc = NoExc

(* C8: Construct succeeds exactly when name is text, non-empty after     *)
(* trimming, of length at most 100, age is an integer in 0..150 and      *)
(* email is text with an '@' and a '.'; otherwise it fails with a        *)
(* validation error.                                                     *)
C8_Acceptance ==
    last.op = "construct" =>
        /\ last.ok <=> /\ NameAccepted(last.args[1])
                       /\ AgeAccepted(last.args[2])
                       /\ EmailAccepted(last.args[3])
        /\ ~last.ok => last.exc.type = "ValueError"

(* the field an error message of the constructor is about *)
FieldOf(exc) ==
    CASE exc.msg \in {<<"Name must be a string">>, <<"Name cannot be empty">>,
                      <<"Name too long (max 100 characters)">>} -> "name"
      [] exc.msg \in {<<"Age must be an integer">>,
                      <<"Age must be between 0 and 150">>} -> "age"
      [] exc.msg \in {<<"Email must be a string">>, <<"Invalid email format">>} -> "email"
      [] OTHER -> "none"

(* C9: Construct reports the first invalid field in the order name, age, *)
(* email: an invalid name masks an invalid age and email, an invalid age *)
(* masks an invalid email.                                               *)
C9_ValidationOrder ==
    last.op = "construct" =>
        LET badName == validate_name(last.args[1]) # NoExc
            badAge == validate_age(last.args[2]) # NoExc
            badEmail == validate_email(last.args[3]) # NoExc
        IN  /\ badName => ~last.ok /\ FieldOf(last.exc) = "name"
            /\ (~badName /\ badAge) => ~last.ok /\ FieldOf(last.exc) = "age"
            /\ (~badName /\ ~badAge /\ badEmail) => ~last.ok /\ FieldOf(last.exc) = "email"

(* UserProfile("Al", "25", "abc") has failed on the age *)
C9_Witness ==
    /\ last.op = "construct"
    /\ last.args[1] = VStr(Chars_Al)
    /\ last.args[2] = VStr(<<"2", "5">>)
    /\ last.args[3] = VStr(<<"a", "b", "c">>)
    /\ ~last.ok
    /\ FieldOf(last.exc) = "age"

(* C10: constructing a profile whose preferences mapping holds a value   *)
(* the encoder cannot encode fails and creates no profile.               *)
C10_RejectsUnencodable ==
    (/\ last.op = "construct"
     /\ last.args[4].t = "dict"
     /\ \E i \in 1..Len(last.args[4].items) : ~Encodable(last.args[4].items[i].v))
    => (~last.ok /\ profiles = <<>>)

(* the keys of the entries of a dict *)
KeysOf(entries) == { entries[i].k : i \in 1..Len(entries) }

(* C11: after a successful UpdatePreferences(p, E) the keys of           *)
(* p.preferences are the old keys and the keys of E, every key of E maps *)
(* to its value in E, every other key keeps its old value, lastUpdated   *)
(* is the current time, and name, age and email are unchanged.           *)
C11_Merge ==
    [][ (last'.op = "update" /\ last'.ok) =>
          LET p == last'.pid
              old == Entries(profiles[p].preferences, heap)
              new == Entries(profiles'[p].preferences, heap')
              given == last'.args[1].items
          IN  /\ KeysOf(new) = KeysOf(old) \cup KeysOf(given)
              /\ \A k \in KeysOf(given) : DictGet(new, k, VNone) = DictGet(given, k, VNone)
              /\ \A k \in KeysOf(old) \ KeysOf(given) :
                    DictGet(new, k, VNone) = DictGet(old, k, VNone)
              /\ Len(new) = Cardinality(KeysOf(new))
              /\ profiles'[p].last_updated = VStr(IsoFormat(now))
              /\ profiles'[p].name = profiles[p].name
              /\ profiles'[p].age = profiles[p].age
              /\ profiles'[p].email = profiles[p].email ]_vars

(* an update at a later time than the construction has overwritten the   *)
(* theme of the caller's dict and added a language                       *)
C11_Witness ==
    /\ last.op = "update"
    /\ last.ok
    /\ last.args[1] = VDict(<<E(VStr(Chars_lang), VStr(Chars_en)),
                              E(VStr(Chars_theme), VStr(Chars_light))>>)
    /\ IsDictObj(profiles[1].preferences)
    /\ Entries(profiles[1].preferences, heap)
         = <<E(VStr(Chars_theme), VStr(Chars_light)), E(VStr(Chars_lang), VStr(Chars_en))>>
    /\ profiles[1].created_at # profiles[1].last_updated

(* C12: the createdAt of a profile that exists is never changed: not by *)
(* UpdatePreferences, whether it succeeds or fails, nor by Encode.       *)
C12_CreatedAtImmutable ==
    [][ \A i \in 1..Len(profiles) :
           /\ Len(profiles') >= i
           /\ profiles'[i].created_at = profiles[i].created_at ]_vars

(* a decoded profile whose record carried its created_at has been       *)
(* updated at a later time and then encoded                              *)
C12_Witness ==
    /\ last.op = "encode"
    /\ last.ok
    /\ profiles[1].created_at = VStr(Chars_past)
    /\ profiles[1].last_updated = VStr(IsoFormat(MaxClock))
    /\ MaxClock > 0

(* C13: Encode changes no field of any profile, and two successive       *)
(* Encode calls on a profile, with any time passing between them and no  *)
(* other call, return the same text.                                     *)
C13_IdempotentEncode ==
    [][ last'.op = "encode" =>
          /\ profiles' = profiles
          /\ heap' = heap
          /\ (last.op = "encode" /\ last.pid = last'.pid /\ last.ok /\ last'.ok)
                => last'.text = last.text ]_vars

(* a profile has been encoded into a file at a time later than its       *)
(* lastUpdated                                                           *)
C13_Witness ==
    /\ last.op = "encode"
    /\ last.ok
    /\ last.args[1] = Filename("ok")
    /\ IsTimestamp(profiles[1].last_updated)
    /\ IsoTime(profiles[1].last_updated.s) < now

(* json.loads(json.dumps(v, default=_json_serializer)) == v *)
SurvivesEncoding(v) ==
    /\ json_dumps(v, TRUE, TRUE).ok
    /\ json_loads(json_dumps(v, TRUE, TRUE).text).ok
    /\ json_loads(json_dumps(v, TRUE, TRUE).text).val = v

(* C14: Encode returns a text or fails with SerializationError and no    *)
(* text; it fails when a preference value cannot be encoded, when the    *)
(* name does not come back from the text as it was, and when the file    *)
(* cannot be written.                                                    *)
C14_EncodeBoundary ==
    last.op = "encode" =>
        LET p == profiles[last.pid] IN
        /\ IF last.ok
           THEN last.exc = NoExc /\ last.text # <<>>
           ELSE last.exc.type = "SerializationError" /\ last.text = <<>>
        /\ ~last.ok <=>
              \/ ~json_dumps(to_dict(p, heap), TRUE, TRUE).ok
              \/ ~SurvivesEncoding(p.name)
              \/ last.args[1] \in {Filename("ioerror"), Filename("permission")}

(* the encoding of a profile whose preferences hold an object() has      *)
(* failed with SerializationError                                        *)
C14_Witness ==
    /\ last.op = "encode"
    /\ ~last.ok
    /\ last.exc.type = "SerializationError"
    /\ profiles[last.pid].preferences = VRef(3)
    /\ last.args[1] = Filename("none")

(* what kind of failure a message says it is: its leading part, which   *)
(* the outermost handler wrote                                           *)
Kind(exc) == exc.msg[1]

(* C15: the message of the SerializationError raised for a file that     *)
(* cannot be written differs in kind from the message raised for an      *)
(* integrity failure on the same profile.                                *)
C15_DestinationDistinct ==
    (/\ last.op = "encode"
     /\ ~last.ok
     /\ last.args[1] \in {Filename("ioerror"), Filename("permission")})
    => \A v \in AssignedNames :
          LET r == serialize_user_profile([profiles[last.pid] EXCEPT !.name = v],
                                          heap, "none")
          IN  ~r.ok => Kind(r.exc) # Kind(last.exc)

(* the message has this part, at any depth of wrapping *)
HasSegment(exc, seg) == \E i \in 1..Len(exc.msg) : exc.msg[i] = seg

(* the last call was a Decode that got its text *)
DecodedText ==
    last.op = "decode" /\ last.args[1] \in {Filename("arg"), Filename("file")}

(* the text is that of a record *)
IsRecordText(text) ==
    text # <<>> /\ json_loads(text).ok /\ json_loads(text).val.t = "dict"

(* C16: a Decode that reads a file fails, when the file is not found,    *)
(* when permission is denied and when the read fails otherwise, with a   *)
(* DeserializationError of that failure's own variant: permission        *)
(* denied is reported by the permission-denied variant and not by the    *)
(* generic one.                                                          *)
C16_SourceVariants ==
    last.op = "decode" =>
        /\ last.args[1] \in {Filename("notfound"), Filename("ioerror"),
                             Filename("permission")}
             => ~last.ok /\ last.exc.type = "DeserializationError"
        /\ last.args[1] = Filename("notfound") => HasSegment(last.exc, "File not found")
        /\ last.args[1] = Filename("ioerror") => HasSegment(last.exc, "Error reading file")
        /\ last.args[1] = Filename("permission")
             => /\ HasSegment(last.exc, "Permission denied reading file")
                /\ ~HasSegment(last.exc, "Error reading file")

(* the first of name, age, email that the record lacks *)
FirstMissing(data) ==
    IF ~HasKey(data, VStr(Chars_name)) THEN VStr(Chars_name)
    ELSE IF ~HasKey(data, VStr(Chars_age)) THEN VStr(Chars_age)
    ELSE IF ~HasKey(data, VStr(Chars_email)) THEN VStr(Chars_email)
    ELSE VNone

(* C17: Decode of a record that lacks name, age or email fails with      *)
(* DeserializationError whose message names the first field missing in   *)
(* the order name, age, email, and creates no profile.                   *)
C17_MissingField ==
    (/\ DecodedText
     /\ IsRecordText(last.text)
     /\ FirstMissing(json_loads(last.text).val.items) # VNone)
    => /\ ~last.ok
       /\ last.exc.type = "DeserializationError"
       /\ HasSegment(last.exc, "Missing required field")
       /\ last.exc.arg = FirstMissing(json_loads(last.text).val.items)
       /\ profiles = <<>>

(* Decode of '{"name": "Al"}' has failed naming age *)
C17_Witness ==
    /\ DecodedText
    /\ last.text = TextOf(VDict(<<E(VStr(Chars_name), VStr(Chars_Al))>>))
    /\ ~last.ok
    /\ last.exc.arg = VStr(Chars_age)

(* C18: Decode of the empty text, and of a text whose value is no        *)
(* record, fails with DeserializationError saying so, before any field   *)
(* is read and with no profile constructed.                              *)
C18_ShapeCheck ==
    DecodedText =>
        /\ last.text = <<>> =>
             /\ ~last.ok
             /\ last.exc.type = "DeserializationError"
             /\ last.exc.msg = <<"Unexpected error during deserialization",
                                 "No JSON data provided for deserialization">>
             /\ profiles = <<>>
        /\ (last.text # <<>> /\ json_loads(last.text).ok
              /\ json_loads(last.text).val.t # "dict") =>
             /\ ~last.ok
             /\ last.exc.type = "DeserializationError"
             /\ last.exc.msg = <<"Unexpected error during deserialization",
                                 "JSON data must represent a dictionary">>
             /\ profiles = <<>>

(* Decode of '[1]' has failed *)
C18_Witness ==
    /\ DecodedText
    /\ last.text = TextOf(VList(<<VInt(1)>>))
    /\ ~last.ok
    /\ HasSegment(last.exc, "JSON data must represent a dictionary")

(* C19: the created_at and last_updated of a decoded profile are the     *)
(* record's values where the record has them, and the time of the call   *)
(* where it has not.                                                     *)
C19_DecodedTimestamps ==
    (DecodedText /\ last.ok) =>
        LET data == json_loads(last.text).val.items
            p == profiles[last.pid]
        IN  /\ p.created_at =
                 IF HasKey(data, VStr(Chars_created_at))
                 THEN DictGet(data, VStr(Chars_created_at), VNone)
                 ELSE VStr(IsoFormat(now))
            /\ p.last_updated =
                 IF HasKey(data, VStr(Chars_last_updated))
                 THEN DictGet(data, VStr(Chars_last_updated), VNone)
                 ELSE VStr(IsoFormat(now))

(* a record with a last_updated and no created_at has been decoded at a  *)
(* later time                                                            *)
C19_Witness ==
    /\ DecodedText
    /\ last.ok
    /\ now > 0
    /\ profiles[last.pid].last_updated = VStr(Chars_past)
    /\ profiles[last.pid].created_at = VStr(IsoFormat(now))

(* the entries of a record with _version removed (v = Missing) or set *)
WithVersion(data, v) ==
    SelectSeq(data, LAMBDA e : e.k # VStr(Chars_version)) \o Field(Chars_version, v)

VersionValues == { Missing, VStr(Chars_1_0), VStr(<<"2", ".", "0">>), VInt(2), VNone }

(* C20: the outcome of Decode does not depend on _version: the record    *)
(* with _version absent, "1.0" or anything else succeeds or fails in the *)
(* same way and gives the same fields.                                   *)
C20_VersionTolerance ==
    (DecodedText /\ IsRecordText(last.text)) =>
        \A v \in VersionValues :
            LET data == json_loads(last.text).val.items
                r == deserialize_user_profile(TextOf(VDict(WithVersion(data, v))),
                                              "arg", heap, now)
            IN  /\ r.ok = last.ok
                /\ r.exc = last.exc
                /\ last.ok =>
                     LET p == profiles[last.pid] IN
                     /\ r.profile.name = p.name
                     /\ r.profile.age = p.age
                     /\ r.profile.email = p.email
                     /\ Snapshot(r.profile.preferences, heap) = Snapshot(p.preferences, heap)
                     /\ r.profile.created_at = p.created_at
                     /\ r.profile.last_updated = p.last_updated

(* a record with "_version": "2.0" has been decoded into a profile *)
C20_Witness ==
    /\ DecodedText
    /\ last.ok
    /\ last.text = TextOf(Record(VStr(Chars_Al), VInt(30), VStr(Chars_mail),
                                 <<E(VStr(Chars_version), VStr(<<"2", ".", "0">>))>>))
    /\ profiles[last.pid].name = VStr(Chars_Al)

(* the last call was a recovery from the text of a record *)
RecoveredRecord == last.op = "recover" /\ IsRecordText(last.text)

(* the field of a record, Missing when the record has none *)
RawField(data, key) == DictGet(data, VStr(key), Missing)

(* the field is missing or falsy *)
Defaulted(v) == v = Missing \/ ~Truthy(v, <<>>)

(* the raw age, converted to text, consists of decimal digits *)
DecimalAge(v) ==
    /\ v # Missing
    /\ v.t \in {"int", "float", "str"}
    /\ IsDigit(StrOf(v, <<>>).s)

(* the name and the email of the record are ones recovery builds a       *)
(* profile from: missing, falsy, or valid as text                        *)
NameRecoverable(data) ==
    \/ Defaulted(RawField(data, Chars_name))
    \/ validate_name(StrOf(RawField(data, Chars_name), <<>>)) = NoExc

EmailRecoverable(data) ==
    \/ Defaulted(RawField(data, Chars_email))
    \/ validate_email(StrOf(RawField(data, Chars_email), <<>>)) = NoExc

(* C21: recovery uses the record's age only when the raw value as text   *)
(* is all decimal digits; for every other raw age, and for a missing     *)
(* one, the profile it returns has age 0.                                *)
C21_AgeCoercion ==
    (/\ RecoveredRecord
     /\ NameRecoverable(json_loads(last.text).val.items)
     /\ EmailRecoverable(json_loads(last.text).val.items))
    => LET raw == RawField(json_loads(last.text).val.items, Chars_age) IN
       IF DecimalAge(raw)
       THEN last.ok => profiles[last.pid].age = VInt(DigitsToNat(StrOf(raw, <<>>).s))
       ELSE last.ok /\ profiles[last.pid].age = VInt(0)

(* C22: recovery from a record gives the name "Unknown User" when the    *)
(* record's name is missing or falsy, the email "unknown@example.com"    *)
(* when its email is missing or falsy, and empty preferences when its    *)
(* preferences are missing or no mapping; a missing or falsy name or     *)
(* email does not make the construction fail.                            *)
C22_RecoveryDefaults ==
    RecoveredRecord =>
        LET data == json_loads(last.text).val.items
            age == RecoverAge(DictGet(data, VStr(Chars_age), VInt(0)), <<>>)
            prefs == RawField(data, Chars_preferences)
        IN  /\ (last.ok /\ Defaulted(RawField(data, Chars_name)))
                  => profiles[last.pid].name = VStr(Chars_UnknownUser)
            /\ (last.ok /\ Defaulted(RawField(data, Chars_email)))
                  => profiles[last.pid].email = VStr(Chars_UnknownEmail)
            /\ (last.ok /\ (prefs = Missing \/ prefs.t # "dict"))
                  => /\ IsDictObj(profiles[last.pid].preferences)
                     /\ Entries(profiles[last.pid].preferences, heap) = <<>>
            /\ (/\ Defaulted(RawField(data, Chars_name)) \/ Defaulted(RawField(data, Chars_email))
                /\ NameRecoverable(data)
                /\ EmailRecoverable(data)
                /\ age.ok
                /\ validate_age(age.val) = NoExc)
                  => last.ok

(* recovery from '{"name": null, "age": 30}' has returned a profile with *)
(* the default name and email                                            *)
C22_Witness ==
    /\ last.op = "recover"
    /\ last.ok
    /\ last.text = TextOf(VDict(<<E(VStr(Chars_name), VNone), E(VStr(Chars_age), VInt(30))>>))
    /\ profiles[last.pid].name = VStr(Chars_UnknownUser)
    /\ profiles[last.pid].email = VStr(Chars_UnknownEmail)

(* C28: a text Encode returns parses to a record with exactly the keys   *)
(* name, age, email, preferences, created_at, last_updated and _version, *)
(* where _version is "1.0" and every other key holds the profile's value *)
(* of that field.                                                        *)
C28_EncodedShape ==
    (last.op = "encode" /\ last.ok) =>
        LET r == json_loads(last.text)
            p == profiles[last.pid]
            at(key) == DictGet(r.val.items, VStr(key), Missing)
        IN  /\ r.ok
            /\ r.val.t = "dict"
            /\ Len(r.val.items) = 7
            /\ KeysOf(r.val.items) =
                 { VStr(Chars_name), VStr(Chars_age), VStr(Chars_email),
                   VStr(Chars_preferences), VStr(Chars_created_at),
                   VStr(Chars_last_updated), VStr(Chars_version) }
            /\ at(Chars_version) = VStr(Chars_1_0)
            /\ at(Chars_name) = p.name
            /\ at(Chars_age) = p.age
            /\ at(Chars_email) = p.email
            /\ PrefsEq(at(Chars_preferences), p.preferences, heap)
            /\ at(Chars_created_at) = p.created_at
            /\ at(Chars_last_updated) = p.last_updated

----------------------------------------------------------------------------
----------------------------------------------------------------------------
(* number9.py: InventoryItem, an item with a validated id, name and      *)
(* quantity. An operation answers [ok, exc, item]: the item as the call  *)
(* leaves it, whether it returned or raised.                              *)

MaxQuantity == 3

ItemDone(self) == [ok |-> TRUE, exc |-> NoExc, item |-> self]

ItemFail(self, msg) == [ok |-> FALSE, exc |-> Exc("ValueError", msg, VNone), item |-> self]

(* set_name storing the new name before it validates it *)
set_name_storing_first(self, new_name, h) ==
    IF ~Truthy(new_name, h) \/ ~IsStr(new_name)
    THEN ItemFail([self EXCEPT !.name = new_name], "Item name must be a non-empty string")
    ELSE ItemDone([self EXCEPT !.name = new_name])

(* set_quantity without the check of the sign *)
set_quantity_unsigned(self, new_quantity) ==
    IF ~IsInstanceInt(new_quantity)
    THEN ItemFail(self, "Quantity must be an integer")
    ELSE ItemDone([self EXCEPT !.quantity = new_quantity])

set_item_id(self, new_id, h) ==
    IF ~Truthy(new_id, h) \/ ~IsStr(new_id)
    THEN ItemFail(self, "Item ID must be a non-empty string")
    ELSE ItemDone([self EXCEPT !.item_id = new_id])

set_name(self, new_name, h) ==
    IF ~Truthy(new_name, h) \/ ~IsStr(new_name)
    THEN ItemFail(self, "Item name must be a non-empty string")
    ELSE ItemDone([self EXCEPT !.name = new_name])

set_quantity(self, new_quantity) ==
    IF ~IsInstanceInt(new_quantity)
    THEN ItemFail(self, "Quantity must be an integer")
    ELSE IF new_quantity.n < 0
    THEN ItemFail(self, "Quantity cannot be negative")
    ELSE ItemDone([self EXCEPT !.quantity = new_quantity])

increase_quantity(self, amount) ==
    IF ~IsInstanceInt(amount) \/ amount.n <= 0
    THEN ItemFail(self, "Increase amount must be a positive integer")
    ELSE set_quantity(self, VInt(self.quantity.n + amount.n))

decrease_quantity(self, amount) ==
    IF ~IsInstanceInt(amount) \/ amount.n <= 0
    THEN ItemFail(self, "Decrease amount must be a positive integer")
    ELSE IF self.quantity.n - amount.n < 0
    THEN ItemFail(self, "Cannot decrease")
    ELSE set_quantity(self, VInt(self.quantity.n - amount.n))

restock(self, amount) == increase_quantity(self, amount)

sell(self, amount) == decrease_quantity(self, amount)

(* InventoryItem(item_id, name, quantity): the three setters in turn; the *)
(* first that raises ends the construction                                *)
InventoryItem_init(item_id, name, quantity, h) ==
    LET r1 == set_item_id(NoItem, item_id, h)
        r2 == set_name(r1.item, name, h)
        r3 == set_quantity(r2.item, quantity)
    IN  IF ~r1.ok THEN r1
        ELSE IF ~r2.ok THEN r2
        ELSE IF ~r3.ok THEN r3
        ELSE ItemDone([r3.item EXCEPT !.made = TRUE])

(* a call on the item: the answer is kept in last, the item is as the *)
(* operation leaves it                                                 *)
ItemCall(op, r, args) ==
    /\ item' = r.item
    /\ last' = Call(op, r.ok, r.exc, 0, args, <<>>)
    /\ UNCHANGED <<heap, profiles, now, books, staff, timer>>

(* the quantities of the model stay within MaxQuantity *)
Bounded(q) == IsInstanceInt(q) => q.n <= MaxQuantity

(* item = InventoryItem(item_id, name, quantity): a construction that *)
(* raises hands no item to the caller                                  *)
NewItem(item_id, name, quantity) ==
    LET r == InventoryItem_init(item_id, name, quantity, heap) IN
    /\ ~item.made
    /\ Bounded(quantity)
    /\ item' = IF r.ok THEN r.item ELSE item
    /\ last' = Call("InventoryItem", r.ok, r.exc, 0, <<item_id, name, quantity>>, <<>>)
    /\ UNCHANGED <<heap, profiles, now, books, staff, timer>>

SetItemId(new_id) ==
    /\ item.made
    /\ ItemCall("set_item_id", set_item_id(item, new_id, heap), <<new_id>>)

SetItemName(new_name) ==
    /\ item.made
    /\ ItemCall("set_name", set_name(item, new_name, heap), <<new_name>>)

SetQuantity(new_quantity) ==
    /\ item.made
    /\ Bounded(new_quantity)
    /\ ItemCall("set_quantity", set_quantity(item, new_quantity), <<new_quantity>>)

IncreaseQuantity(amount) ==
    /\ item.made
    /\ IsInstanceInt(amount) => item.quantity.n + amount.n <= MaxQuantity
    /\ ItemCall("increase_quantity", increase_quantity(item, amount), <<amount>>)

DecreaseQuantity(amount) ==
    /\ item.made
    /\ ItemCall("decrease_quantity", decrease_quantity(item, amount), <<amount>>)

Restock(amount) ==
    /\ item.made
    /\ IsInstanceInt(amount) => item.quantity.n + amount.n <= MaxQuantity
    /\ ItemCall("restock", restock(item, amount), <<amount>>)

Sell(amount) ==
    /\ item.made
    /\ ItemCall("sell", sell(item, amount), <<amount>>)

ItemIds == { VStr(<<"A">>), VStr(<<"B">>), VStr(<<>>), VInt(7) }

ItemNames == { VStr(<<"L">>), VStr(<<"M">>), VStr(<<>>), VNone }

(* integers, and what is no integer: a float, a text, None; True is one *)
ItemNumbers ==
    { VInt(n) : n \in -1..(MaxQuantity + 1) }
        \cup { VBool(TRUE), VFloat(15), VStr(<<"2">>), VNone }

NextInventory ==
    \/ \E i \in ItemIds : \E n \in ItemNames : \E q \in ItemNumbers :
           NewItem(i, n, q)
    \/ \E i \in ItemIds : SetItemId(i)
    \/ \E n \in ItemNames : SetItemName(n)
    \/ \E q \in ItemNumbers : SetQuantity(q)
    \/ \E a \in ItemNumbers : IncreaseQuantity(a)
    \/ \E a \in ItemNumbers : DecreaseQuantity(a)
    \/ \E a \in ItemNumbers : Restock(a)
    \/ \E a \in ItemNumbers : Sell(a)

SpecInventory == Init /\ [][NextInventory]_vars

(* C23: after any sequence of successful or failing operations on an   *)
(* InventoryItem, its quantity is an integer and is 0 or more           *)
C23_QuantityInvariant ==
    item.made => IsInstanceInt(item.quantity) /\ item.quantity.n >= 0

(* an item that was sold from, and a negative quantity that was refused *)
C23_Witness ==
    /\ item.made
    /\ last.op = "set_quantity"
    /\ ~last.ok
    /\ last.args[1] = VInt(-1)
    /\ item.quantity = VInt(1)

ItemOps ==
    { "InventoryItem", "set_item_id", "set_name", "set_quantity",
      "increase_quantity", "decrease_quantity", "restock", "sell" }

NonPositive(a) == ~IsInstanceInt(a) \/ a.n <= 0

(* the calls the operations are to refuse *)
Refused(op, args, self) ==
    CASE op = "set_quantity" -> ~IsInstanceInt(args[1]) \/ args[1].n < 0
      [] op \in {"increase_quantity", "restock"} -> NonPositive(args[1])
      [] op \in {"decrease_quantity", "sell"} ->
             NonPositive(args[1]) \/ args[1].n > self.quantity.n
      [] op \in {"set_item_id", "set_name"} -> args[1] = VStr(<<>>)
      [] OTHER -> FALSE

(* C29: an operation on an InventoryItem that raises ValueError leaves *)
(* the id, the name and the quantity as they were, the refused calls    *)
(* raise it, a successful sell(a) has 0 < a <= quantity and lowers the  *)
(* quantity by exactly a, and a successful restock(a) raises it by a    *)
C29_FailedOperationsChangeNothing ==
    [][last'.op \in ItemOps =>
        /\ ~last'.ok => last'.exc.type = "ValueError" /\ item' = item
        /\ item.made /\ Refused(last'.op, last'.args, item) => ~last'.ok
        /\ last'.op = "sell" /\ last'.ok =>
               /\ last'.args[1].n > 0
               /\ last'.args[1].n <= item.quantity.n
               /\ item'.quantity.n = item.quantity.n - last'.args[1].n
               /\ item'.item_id = item.item_id /\ item'.name = item.name
        /\ last'.op = "restock" /\ last'.ok =>
               /\ item'.quantity.n = item.quantity.n + last'.args[1].n
               /\ item'.item_id = item.item_id /\ item'.name = item.name]_vars

(* more was asked for than there is, and the sale was refused *)
C29_Witness ==
    /\ item.made
    /\ last.op = "sell"
    /\ ~last.ok
    /\ last.args[1] = VInt(2)
    /\ item.quantity = VInt(1)

----------------------------------------------------------------------------
----------------------------------------------------------------------------
(* number3.py: BookstoreInventory, a list of books. add_new_book and     *)
(* update_stock answer [msg, books]: the message they return and the     *)
(* list as they leave it. Titles and authors are texts.                   *)

MaxBooks == 2

(* float("nan"), which the menu reads when "nan" is typed as a price *)
VNaN == V("float", <<"n", "a", "n">>, 0, <<>>)

(* v < 0, for a number: every comparison with nan is false *)
LessThanZero(v) == v # VNaN /\ v.n < 0

UpperCase == [c \in {"a", "b", "x", "y"} |->
                 CASE c = "a" -> "A" [] c = "b" -> "B" [] c = "x" -> "X" [] c = "y" -> "Y"]

(* str.lower() *)
lower(s) ==
    [i \in 1..Len(s) |->
        IF \E c \in DOMAIN UpperCase : UpperCase[c] = s[i]
        THEN CHOOSE c \in DOMAIN UpperCase : UpperCase[c] = s[i]
        ELSE s[i]]

(* Book(title, author, price, stock_quantity) *)
Book(title, author, price, stock_quantity) ==
    [title |-> title, author |-> author, price |-> price, stock_quantity |-> stock_quantity]

(* a message: "Error: " or nothing, then its words around the title, the *)
(* author and the number it quotes                                        *)
Msg(prefix, words, title, author, tail, number) ==
    [prefix |-> prefix, words |-> words, title |-> title, author |-> author,
     tail |-> tail, number |-> number]

ErrorMsg(words) == Msg("Error: ", words, VNone, VNone, "", VNone)

(* the duplicate check comparing the texts as they are *)
Matches_exactly(book, title, author) ==
    book.title = title /\ book.author = author

(* book.title.lower() == title.lower() and book.author.lower() == author.lower() *)
Matches(book, title, author) ==
    lower(book.title.s) = lower(title.s) /\ lower(book.author.s) = lower(author.s)

add_new_book(self, title, author, price, stock_quantity, h) ==
    IF ~Truthy(title, h) \/ ~Truthy(author, h)
    THEN [msg |-> ErrorMsg("Title and author cannot be empty."), books |-> self]
    ELSE IF LessThanZero(price)
    THEN [msg |-> ErrorMsg("Price cannot be negative."), books |-> self]
    ELSE IF LessThanZero(stock_quantity)
    THEN [msg |-> ErrorMsg("Stock quantity cannot be negative."), books |-> self]
    ELSE IF \E i \in 1..Len(self) : Matches(self[i], title, author)
    THEN [msg |-> Msg("Error: ", "", title, author, " already exists in inventory.", VNone),
          books |-> self]
    ELSE [msg |-> Msg("", "Successfully added ", title, author, " to inventory.", VNone),
          books |-> Append(self, Book(title, author, price, stock_quantity))]

(* the first book that matches has its stock set *)
update_stock(self, title, author, new_quantity) ==
    IF LessThanZero(new_quantity)
    THEN [msg |-> ErrorMsg("Stock quantity cannot be negative."), books |-> self]
    ELSE IF \E i \in 1..Len(self) : Matches(self[i], title, author)
    THEN LET first == CHOOSE i \in 1..Len(self) :
                          /\ Matches(self[i], title, author)
                          /\ \A j \in 1..(i - 1) : ~Matches(self[j], title, author)
         IN  [msg |-> Msg("", "Successfully updated stock for ", title, author, " to ", new_quantity),
              books |-> [self EXCEPT ![first].stock_quantity = new_quantity]]
    ELSE [msg |-> Msg("Error: ", "Book ", title, author, " not found in inventory.", VNone),
          books |-> self]

(* bookstore.add_new_book(title, author, price, stock_quantity) *)
AddNewBook(title, author, price, stock_quantity) ==
    LET r == add_new_book(books, title, author, price, stock_quantity, heap) IN
    /\ Len(books) < MaxBooks
    /\ books' = r.books
    /\ last' = Call("add_new_book", r.msg.prefix # "Error: ", NoExc, 0,
                    <<title, author, price, stock_quantity>>, <<r.msg>>)
    /\ UNCHANGED <<heap, profiles, now, item, staff, timer>>

(* bookstore.update_stock(title, author, new_quantity) *)
UpdateStock(title, author, new_quantity) ==
    LET r == update_stock(books, title, author, new_quantity) IN
    /\ books' = r.books
    /\ last' = Call("update_stock", r.msg.prefix # "Error: ", NoExc, 0,
                    <<title, author, new_quantity>>, <<r.msg>>)
    /\ UNCHANGED <<heap, profiles, now, item, staff, timer>>

Titles == { VStr(<<"a">>), VStr(<<"A">>), VStr(<<"b">>) }

Authors == { VStr(<<"x">>), VStr(<<"X">>) }

(* the calls of add_new_book: books at 12.9 with 5 in stock, and a call *)
(* for each thing that can be wrong with one, -1.0 and nan among them   *)
AddInputs ==
    { <<t, a, VFloat(129), VInt(5)>> : t \in Titles, a \in Authors }
        \cup { <<VStr(<<>>), VStr(<<"x">>), VFloat(129), VInt(5)>>,
               <<VStr(<<"a">>), VStr(<<>>), VFloat(129), VInt(5)>>,
               <<VStr(<<"a">>), VStr(<<"x">>), VFloat(-10), VInt(5)>>,
               <<VStr(<<"a">>), VStr(<<"x">>), VFloat(129), VInt(-1)>>,
               <<VStr(<<"b">>), VStr(<<"x">>), VNaN, VInt(5)>> }

StockInputs ==
    { <<t, VStr(<<"x">>), q>> : t \in Titles, q \in {VInt(0), VInt(-1)} }
        \cup { <<VStr(<<"a">>), VStr(<<"X">>), VNaN>> }

NextBookstore ==
    \/ \E c \in AddInputs : AddNewBook(c[1], c[2], c[3], c[4])
    \/ \E c \in StockInputs : UpdateStock(c[1], c[2], c[3])

SpecBookstore == Init /\ [][NextBookstore]_vars

(* two texts that differ at most in the case of their letters *)
CasePairs == { <<"a", "A">>, <<"b", "B">>, <<"x", "X">>, <<"y", "Y">> }

SameIgnoringCase(s, t) ==
    /\ Len(s) = Len(t)
    /\ \A i \in 1..Len(s) :
           s[i] = t[i] \/ <<s[i], t[i]>> \in CasePairs \/ <<t[i], s[i]>> \in CasePairs

SameBook(b, title, author) ==
    SameIgnoringCase(b.title.s, title.s) /\ SameIgnoringCase(b.author.s, author.s)

NoDuplicates ==
    \A i, j \in 1..Len(books) :
        i # j => ~SameBook(books[i], books[j].title, books[j].author)

(* the call that led to this step adds a book the inventory has *)
AddsDuplicate ==
    /\ last'.op = "add_new_book"
    /\ \E i \in 1..Len(books) : SameBook(books[i], last'.args[1], last'.args[2])

AlreadyExists ==
    last'.text[1] = Msg("Error: ", "", last'.args[1], last'.args[2],
                        " already exists in inventory.", VNone)

(* C24, as stated: no two books of the inventory have the same title and *)
(* author, compared without regard to case, and every call that adds     *)
(* such a duplicate returns the 'already exists' error and leaves the    *)
(* books as they were                                                     *)
C24_Uniqueness ==
    /\ []NoDuplicates
    /\ [][AddsDuplicate => AlreadyExists /\ books' = books]_vars

(* C24, amended: no two books of the inventory have the same title and   *)
(* author, compared without regard to case; every call that adds such a  *)
(* duplicate leaves the books as they were and returns an error, which   *)
(* is the 'already exists' error when neither the price nor the stock    *)
(* it gives is negative                                                   *)
C24_UniquenessOfValid ==
    /\ []NoDuplicates
    /\ [][AddsDuplicate =>
             /\ books' = books
             /\ ~last'.ok
             /\ ~LessThanZero(last'.args[3]) /\ ~LessThanZero(last'.args[4])
                    => AlreadyExists]_vars

(* "A" by "x" was refused because the inventory has "a" by "x" *)
C24_Witness ==
    /\ last.op = "add_new_book"
    /\ last.args[1] = VStr(<<"A">>)
    /\ last.text[1].tail = " already exists in inventory."
    /\ Len(books) = 1
    /\ books[1].title = VStr(<<"a">>)
    /\ books[1].price = VFloat(129)

(* 0 <= v; nan is not *)
AtLeastZero(v) == v # VNaN /\ v.n >= 0

NonNegativeBooks ==
    \A i \in 1..Len(books) :
        AtLeastZero(books[i].price) /\ AtLeastZero(books[i].stock_quantity)

(* the calls that are to return an error *)
ToBeRefused ==
    \/ /\ last'.op = "add_new_book"
       /\ \/ last'.args[1] = VStr(<<>>) \/ last'.args[2] = VStr(<<>>)
          \/ LessThanZero(last'.args[3]) \/ LessThanZero(last'.args[4])
          \/ \E i \in 1..Len(books) : SameBook(books[i], last'.args[1], last'.args[2])
    \/ /\ last'.op = "update_stock"
       /\ \/ LessThanZero(last'.args[3])
          \/ ~\E i \in 1..Len(books) : SameBook(books[i], last'.args[1], last'.args[2])

(* the stock of exactly one book, one that matches, became the new one *)
OneStockChanged ==
    /\ Len(books') = Len(books)
    /\ \E i \in 1..Len(books) :
           /\ SameBook(books[i], last'.args[1], last'.args[2])
           /\ books' = [books EXCEPT ![i].stock_quantity = last'.args[3]]

BookstoreFrame ==
    last'.op \in {"add_new_book", "update_stock"} =>
        /\ ToBeRefused => ~last'.ok
        /\ ~last'.ok => books' = books
        /\ last'.op = "update_stock" /\ last'.ok => OneStockChanged

(* C30: every book of the inventory has a price and a stock that are 0   *)
(* or more; a call that returns an 'Error:' message (empty title or      *)
(* author, negative price or quantity, duplicate, book not found) leaves *)
(* the books as they were; a successful update_stock changes the stock   *)
(* of exactly the one book that matches                                   *)
C30_NonNegativeAndFrame ==
    /\ []NonNegativeBooks
    /\ [][BookstoreFrame]_vars

----------------------------------------------------------------------------
----------------------------------------------------------------------------
(* number8.py: Employee, which counts its objects in the class field     *)
(* _employee_count: __init__ adds one, __del__ takes one off. An object  *)
(* is destroyed, and its __del__ runs, when its last reference goes.     *)

MaxEmployees == 3

MaxRefs == 2

(* Employee.__init__: the fields, then Employee._employee_count += 1 *)
Employee_init(s, employee_id) ==
    [employee_count |-> s.employee_count + 1,
     objects |-> Append(s.objects, [employee_id |-> employee_id, refs |-> 1])]

(* Employee.__del__: Employee._employee_count -= 1 *)
Employee_del(s) == [s EXCEPT !.employee_count = s.employee_count - 1]

(* Employee.get_employee_count() *)
get_employee_count(s) == s.employee_count

(* the sequence without its i-th element *)
Without(seq, i) == [j \in 1..(Len(seq) - 1) |-> IF j < i THEN seq[j] ELSE seq[j + 1]]

(* emp = Employee(employee_id, name, department) *)
NewEmployee(employee_id) ==
    /\ Len(staff.objects) < MaxEmployees
    /\ staff' = Employee_init(staff, employee_id)
    /\ last' = Call("Employee", TRUE, NoExc, 0, <<employee_id>>, <<>>)
    /\ UNCHANGED <<heap, profiles, now, item, books, timer>>

(* Employee() with an argument missing: the object is made, __init__ is *)
(* not entered (TypeError), and the object, which nobody holds, is       *)
(* destroyed: its __del__ runs                                            *)
NewEmployeeMissingArgument ==
    /\ staff.employee_count > -MaxEmployees
    /\ staff' = Employee_del(staff)
    /\ last' = Call("Employee", FALSE, Exc("TypeError", "missing required positional arguments", VNone),
                    0, <<>>, <<>>)
    /\ UNCHANGED <<heap, profiles, now, item, books, timer>>

(* emp2 = emp: one more reference to the i-th object *)
Share(i) ==
    /\ staff.objects[i].refs < MaxRefs
    /\ staff' = [staff EXCEPT !.objects[i].refs = @ + 1]
    /\ last' = Call("assign", TRUE, NoExc, i, <<>>, <<>>)
    /\ UNCHANGED <<heap, profiles, now, item, books, timer>>

(* del emp: one reference less; the object is destroyed with its last *)
Del(i) ==
    /\ staff' = IF staff.objects[i].refs > 1
                THEN [staff EXCEPT !.objects[i].refs = @ - 1]
                ELSE Employee_del([staff EXCEPT !.objects = Without(staff.objects, i)])
    /\ last' = Call("del", TRUE, NoExc, i, <<>>, <<>>)
    /\ UNCHANGED <<heap, profiles, now, item, books, timer>>

EmployeeIds == { VInt(201), VInt(202) }

NextEmployee ==
    \/ \E e \in EmployeeIds : NewEmployee(e)
    \/ NewEmployeeMissingArgument
    \/ \E i \in 1..Len(staff.objects) : Share(i)
    \/ \E i \in 1..Len(staff.objects) : Del(i)

SpecEmployee == Init /\ [][NextEmployee]_vars

(* C25: after any creations and destructions of Employee objects, the  *)
(* employee count is the number of the objects created and not yet     *)
(* destroyed, and it is never negative                                  *)
C25_EmployeeCount ==
    /\ get_employee_count(staff) = Len(staff.objects)
    /\ get_employee_count(staff) >= 0

----------------------------------------------------------------------------
----------------------------------------------------------------------------
(* number7.py: TimerDecorator. timer.instances are the TimerDecorator    *)
(* objects, timer.globals what each decorated name is bound to, and      *)
(* timer.stack the calls of wrappers that are running, the innermost     *)
(* last. An instance's calls count, for each name, the calls of the      *)
(* decorated name that have completed since its statistics were reset;   *)
(* the program keeps no such count, it is there to state the properties. *)

MaxArg == 2

MaxTimings == 2

MaxDecorated == 2

(* a function object: the wrapper _create_wrapper makes around func *)
VFunc(func) == V("function", <<"wrapper">>, 0, <<func>>)

RECURSIVE SeqSum(_)
SeqSum(seq) == IF seq = <<>> THEN 0 ELSE Head(seq) + SeqSum(Tail(seq))

SeqMin(seq) == CHOOSE m \in {seq[i] : i \in 1..Len(seq)} : \A i \in 1..Len(seq) : m <= seq[i]

SeqMax(seq) == CHOOSE m \in {seq[i] : i \in 1..Len(seq)} : \A i \in 1..Len(seq) : m >= seq[i]

(* TimerDecorator(func, verbose=..., store_results=...); an instance made *)
(* with a func also stores a wrapper of it as its attribute __call__,     *)
(* which calling the instance does not look at: a call of an object runs  *)
(* the __call__ of its class                                              *)
TimerDecorator_init(verbose, store_results) ==
    [verbose |-> verbose, store_results |-> store_results,
     timing_data |-> <<>>, calls |-> <<>>]

(* what a decorated name is bound to: a wrapper function that belongs to *)
(* an instance, or an instance                                            *)
Binding(name, kind, inst) == [name |-> name, kind |-> kind, inst |-> inst]

IsDecorated(tm, name) == \E i \in 1..Len(tm.globals) : tm.globals[i].name = name

BindingOf(tm, name) ==
    tm.globals[CHOOSE i \in 1..Len(tm.globals) : tm.globals[i].name = name]

(* the functions that are decorated: the two factorials of the module, *)
(* and a function of the caller that raises                             *)
FuncNames == { "factorial_recursive", "factorial_iterative", "raising" }

RECURSIVE Factorial(_)
Factorial(n) == IF n <= 1 THEN 1 ELSE n * Factorial(n - 1)

(* what a function does with n once the call it makes, if it makes one, *)
(* has answered child                                                    *)
Body(name, n, child) ==
    CASE name = "factorial_recursive" ->
             [ok |-> TRUE, exc |-> NoExc,
              val |-> IF n <= 1 THEN VInt(1) ELSE VInt(n * child.n)]
      [] name = "factorial_iterative" ->
             [ok |-> TRUE, exc |-> NoExc, val |-> VInt(Factorial(n))]
      [] OTHER ->
             [ok |-> FALSE, exc |-> Exc("ValueError", "raising", VInt(n)), val |-> VNone]

(* factorial_recursive(n) calls factorial_recursive(n - 1) when n > 1 *)
CallsItself(name, n) == name = "factorial_recursive" /\ n > 1

(* one more completed call of name on the instance *)
Counted(inst, name) ==
    [inst EXCEPT !.calls = DictSet(inst.calls, name, DictGet(inst.calls, name, 0) + 1)]

(* the finally block of the wrapper: the elapsed time is stored under *)
(* func.__name__ when store_results is set                             *)
wrapper_finally(inst, name, elapsed) ==
    IF inst.store_results
    THEN [inst EXCEPT !.timing_data =
              DictSet(inst.timing_data, name,
                      Append(DictGet(inst.timing_data, name, <<>>), elapsed))]
    ELSE inst

StatsEntries(times) ==
    << E(VStr(<<"call_count">>), VInt(Len(times))),
       E(VStr(<<"total_time">>), VFloat(10 * SeqSum(times))),
       E(VStr(<<"average_time">>), VFloat((10 * SeqSum(times)) \div Len(times))),
       E(VStr(<<"min_time">>), VFloat(10 * SeqMin(times))),
       E(VStr(<<"max_time">>), VFloat(10 * SeqMax(times))) >>

(* get_stats(func_name); times are in tenths, the average to a tenth *)
get_stats(inst, func_name) ==
    IF inst.timing_data = <<>> THEN VDict(<<>>)
    ELSE IF func_name # VNone /\ func_name # VStr(<<>>)
    THEN IF ~HasKey(inst.timing_data, func_name.s[1]) THEN VDict(<<>>)
         ELSE LET times == DictGet(inst.timing_data, func_name.s[1], <<>>) IN
              VDict(<<E(VStr(<<"function">>), func_name)>> \o StatsEntries(times)
                    \o <<E(VStr(<<"all_times">>),
                           VList([i \in 1..Len(times) |-> VFloat(10 * times[i])]))>>)
    ELSE VDict([i \in 1..Len(inst.timing_data) |->
                   E(VStr(<<inst.timing_data[i].k>>),
                     VDict(StatsEntries(inst.timing_data[i].v)))])

(* the entries without the one of key k *)
DictDel(entries, k) ==
    IF HasKey(entries, k) THEN Without(entries, KeyIndex(entries, k)) ELSE entries

(* reset_stats(func_name) *)
reset_stats(inst, func_name) ==
    IF func_name # VNone /\ func_name # VStr(<<>>)
    THEN [inst EXCEPT !.timing_data = DictDel(inst.timing_data, func_name.s[1]),
                      !.calls = DictDel(inst.calls, func_name.s[1])]
    ELSE [inst EXCEPT !.timing_data = <<>>, !.calls = <<>>]

TimerFrame == UNCHANGED <<heap, profiles, now, item, books, staff>>

(* @performance_timer above def name: name = performance_timer(name), *)
(* which is __call__ with a func: the wrapper                          *)
DecorateWithInstance(name) ==
    /\ ~IsDecorated(timer, name)
    /\ Len(timer.globals) < MaxDecorated
    /\ timer.stack = <<>>
    /\ timer' = [timer EXCEPT !.globals = Append(@, Binding(name, "wrapper", 1))]
    /\ last' = Call("decorate", TRUE, NoExc, 1, <<VStr(<<name>>)>>, <<>>)
    /\ TimerFrame

(* @TimerDecorator above def name: name = TimerDecorator(name), an *)
(* instance                                                         *)
DecorateWithClass(name) ==
    /\ ~IsDecorated(timer, name)
    /\ Len(timer.globals) < MaxDecorated
    /\ timer.stack = <<>>
    /\ timer' = [timer EXCEPT
                    !.instances = Append(@, TimerDecorator_init(TRUE, TRUE)),
                    !.globals = Append(@, Binding(name, "instance", Len(timer.instances) + 1))]
    /\ last' = Call("decorate", TRUE, NoExc, Len(timer.instances) + 1, <<VStr(<<name>>)>>, <<>>)
    /\ TimerFrame

(* @TimerDecorator(verbose=..., store_results=...) above def name:   *)
(* name = TimerDecorator(verbose=..., store_results=...)(name), the  *)
(* wrapper of a new instance                                          *)
DecorateWithParameters(name, verbose, store_results) ==
    /\ ~IsDecorated(timer, name)
    /\ Len(timer.globals) < MaxDecorated
    /\ timer.stack = <<>>
    /\ timer' = [timer EXCEPT
                    !.instances = Append(@, TimerDecorator_init(verbose, store_results)),
                    !.globals = Append(@, Binding(name, "wrapper", Len(timer.instances) + 1))]
    /\ last' = Call("decorate", TRUE, NoExc, Len(timer.instances) + 1, <<VStr(<<name>>)>>, <<>>)
    /\ TimerFrame

(* the completed calls that the instances count *)
Completed(tm) ==
    SeqSum([i \in 1..Len(tm.instances) |->
               SeqSum([j \in 1..Len(tm.instances[i].calls) |->
                          tm.instances[i].calls[j].v])])

(* name(n), called by the program. Bound to a wrapper: start_time is    *)
(* taken and func is entered. Bound to an instance: __call__(self, n)   *)
(* runs, n is its func and is not None, so it returns a wrapper of n.   *)
(* A completed call is kept in last with the name, n, what the caller   *)
(* was given, and how many times the function itself was entered        *)
CallDecorated(name, n) ==
    LET b == BindingOf(timer, name) IN
    /\ IsDecorated(timer, name)
    /\ timer.stack = <<>>
    /\ Completed(timer) + n <= MaxTimings
    /\ IF b.kind = "wrapper"
       THEN /\ timer' = [timer EXCEPT !.stack =
                            <<[name |-> name, n |-> n, inst |-> b.inst,
                               start |-> now, child |-> VNone]>>]
            /\ last' = Call("enter", TRUE, NoExc, b.inst, <<VStr(<<name>>), VInt(n)>>, <<>>)
       ELSE /\ timer' = [timer EXCEPT !.instances[b.inst] = Counted(@, name)]
            /\ last' = Call("call", TRUE, NoExc, b.inst,
                            <<VStr(<<name>>), VInt(n), VFunc(VInt(n)), VInt(0)>>, <<>>)
    /\ TimerFrame

(* the innermost running function calls itself through its name *)
CallNested ==
    LET fr == timer.stack[Len(timer.stack)] IN
    /\ timer.stack # <<>>
    /\ CallsItself(fr.name, fr.n)
    /\ fr.child = VNone
    /\ timer' = [timer EXCEPT !.stack =
                    Append(@, [name |-> fr.name, n |-> fr.n - 1,
                               inst |-> BindingOf(timer, fr.name).inst,
                               start |-> now, child |-> VNone])]
    /\ last' = Call("enter", TRUE, NoExc, fr.inst, <<VStr(<<fr.name>>), VInt(fr.n - 1)>>, <<>>)
    /\ TimerFrame

(* the innermost running function returns or raises: the finally block *)
(* of its wrapper runs, and the caller has the result or the exception  *)
Complete ==
    LET fr == timer.stack[Len(timer.stack)]
        r == Body(fr.name, fr.n, fr.child)
        rest == SubSeq(timer.stack, 1, Len(timer.stack) - 1)
    IN  /\ timer.stack # <<>>
        /\ CallsItself(fr.name, fr.n) => fr.child # VNone
        /\ timer' = [timer EXCEPT
                        !.instances[fr.inst] =
                            Counted(wrapper_finally(@, fr.name, now - fr.start), fr.name),
                        !.stack = IF rest = <<>> THEN rest
                                  ELSE [rest EXCEPT ![Len(rest)].child = r.val]]
        /\ last' = Call("call", r.ok, r.exc, fr.inst,
                        <<VStr(<<fr.name>>), VInt(fr.n), r.val, VInt(1)>>, <<>>)
        /\ TimerFrame

(* instance.get_stats(func_name) *)
GetStats(i, func_name) ==
    /\ last' = Call("get_stats", TRUE, NoExc, i, <<func_name, get_stats(timer.instances[i], func_name)>>, <<>>)
    /\ UNCHANGED timer
    /\ TimerFrame

(* instance.reset_stats(func_name) *)
ResetStats(i, func_name) ==
    /\ timer' = [timer EXCEPT !.instances[i] = reset_stats(@, func_name)]
    /\ last' = Call("reset_stats", TRUE, NoExc, i, <<func_name>>, <<>>)
    /\ TimerFrame

(* the names asked for: those that are decorated, and none *)
StatsNames == { VStr(<<timer.globals[i].name>>) : i \in 1..Len(timer.globals) } \cup { VNone }

(* verbose and store_results, as the parameterised form is given them *)
Parameters == { <<TRUE, TRUE>>, <<FALSE, FALSE>> }

NextTimer ==
    \/ Wait
    \/ \E f \in FuncNames : DecorateWithInstance(f)
    \/ \E f \in FuncNames : DecorateWithClass(f)
    \/ \E f \in FuncNames : \E c \in Parameters : DecorateWithParameters(f, c[1], c[2])
    \/ \E f \in FuncNames : \E n \in 1..MaxArg : CallDecorated(f, n)
    \/ CallNested
    \/ Complete
    \/ \E i \in 1..Len(timer.instances) : \E f \in StatsNames : GetStats(i, f)
    \/ \E i \in 1..Len(timer.instances) : \E f \in StatsNames : ResetStats(i, f)

SpecTimer == Init /\ [][NextTimer]_vars

(* the call of a decorated name that completed in last gave the caller *)
(* what the function gives for its argument: its result, or for the    *)
(* function that raises, its exception                                  *)
GaveFunctionsResult(c) ==
    IF c.args[1].s[1] = "raising"
    THEN ~c.ok /\ c.exc = Exc("ValueError", "raising", c.args[2])
    ELSE c.ok /\ c.args[3] = VInt(Factorial(c.args[2].n))

(* the times stored by instance i of tm under name *)
TimesOf(tm, i, name) == DictGet(tm.instances[i].timing_data, name, <<>>)

(* get_stats(name)['call_count'] of every instance that stores results *)
(* is the number of the calls of name completed since the last reset;  *)
(* where none has completed, no count is asked of get_stats             *)
CallCountRight ==
    \A i \in 1..Len(timer.instances) : \A name \in FuncNames :
        LET stats == get_stats(timer.instances[i], VStr(<<name>>))
            done == DictGet(timer.instances[i].calls, name, 0)
        IN  timer.instances[i].store_results /\ done > 0 =>
                DictGet(stats.items, VStr(<<"call_count">>), VNone) = VInt(done)

(* a call of a decorated name completes in this step, on an instance *)
(* that stores results                                                *)
CallCompletes ==
    /\ Completed(timer') = Completed(timer) + 1
    /\ last'.op = "call"
    /\ timer.instances[last'.pid].store_results

(* C26: for a function wrapped by a TimerDecorator instance that stores *)
(* results, every call that completes, returning or raising, nested     *)
(* ones included, appends exactly one elapsed time under the function's *)
(* name, the caller has the function's result or its exception, and     *)
(* get_stats(name)['call_count'] is the number of calls completed since *)
(* the last reset_stats for that name                                   *)
C26_TimingRecorded ==
    /\ []CallCountRight
    /\ [][CallCompletes =>
             LET name == last'.args[1].s[1]
                 before == TimesOf(timer, last'.pid, name)
                 after == TimesOf(timer', last'.pid, name)
             IN  /\ Len(after) = Len(before) + 1
                 /\ SubSeq(after, 1, Len(before)) = before
                 /\ GaveFunctionsResult(last')]_vars

(* C27: decorated with an instance, with the class, or with the class    *)
(* and parameters, a function runs once for each call of its name, with *)
(* the argument of the call, and the caller has the function's result   *)
C27_FormsAlike ==
    last.op = "call" => last.args[4] = VInt(1) /\ GaveFunctionsResult(last)

============================================================================
